---- MODULE Spec2Model ----
(***************************************************************************)
(* Authentication gateway of dudoxx-convex-frontend: the Next.js API       *)
(* routes (register, login) over the in-memory MockAuthStore, the          *)
(* middleware helpers (validateRequest, rateLimit, validateOrigin), the    *)
(* documented RateLimiter, and the Convex HTTP actions and mutations.      *)
(*                                                                         *)
(* Strings are sequences of UTF-16 code units, so that toLowerCase, trim,   *)
(* startsWith and the e-mail regular expression are computed and not       *)
(* assumed.  JSON values are tagged records [t, v].                        *)
(***************************************************************************)
EXTENDS Integers, Sequences, FiniteSets, TLC

VARIABLES
    env,        \* process.env: [NODE_ENV, NEXT_PUBLIC_APP_URL]
    users,      \* mock-store `users` array
    authLogs,   \* mock-store `authLogs` array
    console,    \* lines written by logSecurityEvent
    nextId,     \* freshness of `user_${Date.now()}_${Math.random()...}`
    reqs,       \* the requests in flight and answered, one record per slot
    pending,    \* the authenticateUser calls made on the store and not yet
                \* resumed from their await, oldest first
    fnIn,       \* input of the pure function under check
    fnOut,      \* its result
    requests,   \* RateLimiter.requests: identifier -> timestamps
    now,        \* Date.now()
    ticks,      \* how often the clock has advanced
    calls,      \* the isAllowed calls made, per identifier: [at, allowed]
    securityLog,\* entries stored by SecurityLogger.storeSecurityLog
    db,         \* the Convex tables: [users, profiles, authLogs, nextId]
    cvx,        \* the Convex calls in flight and answered, one per slot
    cvxDone     \* the answered Convex calls, in the order of their answers

gatewayVars == <<env, users, authLogs, console, nextId, reqs, pending>>
fnVars == <<fnIn, fnOut>>
limiterVars == <<requests, now, ticks, calls, securityLog>>
convexVars == <<db, cvx, cvxDone>>
nonGatewayVars == <<fnVars, limiterVars, convexVars>>
vars == <<gatewayVars, fnVars, limiterVars, convexVars>>

(***************************************************************************)
(* Strings                                                                 *)
(*                                                                         *)
(* A string is the sequence of its UTF-16 code units.  A code unit is      *)
(* written as a one-character string, or by its name "U+XXXX" where a      *)
(* TLA+ string cannot hold it (the grave accent, a surrogate, and the code *)
(* units from U+0100 whose low byte is below 0x80).                        *)
(***************************************************************************)
UpperChars == <<"A","B","C","D","E","F","G","H","I","J","K","L","M",
                "N","O","P","Q","R","S","T","U","V","W","X","Y","Z">>
LowerChars == <<"a","b","c","d","e","f","g","h","i","j","k","l","m",
                "n","o","p","q","r","s","t","u","v","w","x","y","z">>

\* the lowercase mappings of the Unicode character database outside A-Z,
\* <<letter, lowercase>>, for the code units that are a letter by themselves
LowerPairs ==
    {
     <<"À", "à">>, <<"Á", "á">>, <<"Â", "â">>, <<"Ã", "ã">>, <<"Ä", "ä">>, <<"Å", "å">>,
     <<"Æ", "æ">>, <<"Ç", "ç">>, <<"È", "è">>, <<"É", "é">>, <<"Ê", "ê">>, <<"Ë", "ë">>,
     <<"Ì", "ì">>, <<"Í", "í">>, <<"Î", "î">>, <<"Ï", "ï">>, <<"Ð", "ð">>, <<"Ñ", "ñ">>,
     <<"Ò", "ò">>, <<"Ó", "ó">>, <<"Ô", "ô">>, <<"Õ", "õ">>, <<"Ö", "ö">>, <<"Ø", "ø">>,
     <<"Ù", "ù">>, <<"Ú", "ú">>, <<"Û", "û">>, <<"Ü", "ü">>, <<"Ý", "ý">>, <<"Þ", "þ">>,
     <<"U+0100", "U+0101">>, <<"U+0102", "U+0103">>, <<"U+0104", "U+0105">>, <<"U+0106", "U+0107">>, <<"U+0108", "U+0109">>, <<"U+010A", "U+010B">>,
     <<"U+010C", "U+010D">>, <<"U+010E", "U+010F">>, <<"U+0110", "U+0111">>, <<"U+0112", "U+0113">>, <<"U+0114", "U+0115">>, <<"U+0116", "U+0117">>,
     <<"U+0118", "U+0119">>, <<"U+011A", "U+011B">>, <<"U+011C", "U+011D">>, <<"U+011E", "U+011F">>, <<"U+0120", "U+0121">>, <<"U+0122", "U+0123">>,
     <<"U+0124", "U+0125">>, <<"U+0126", "U+0127">>, <<"U+0128", "U+0129">>, <<"U+012A", "U+012B">>, <<"U+012C", "U+012D">>, <<"U+012E", "U+012F">>,
     <<"U+0132", "U+0133">>, <<"U+0134", "U+0135">>, <<"U+0136", "U+0137">>, <<"U+0139", "U+013A">>, <<"U+013B", "U+013C">>, <<"U+013D", "U+013E">>,
     <<"U+013F", "U+0140">>, <<"U+0141", "U+0142">>, <<"U+0143", "U+0144">>, <<"U+0145", "U+0146">>, <<"U+0147", "U+0148">>, <<"U+014A", "U+014B">>,
     <<"U+014C", "U+014D">>, <<"U+014E", "U+014F">>, <<"U+0150", "U+0151">>, <<"U+0152", "U+0153">>, <<"U+0154", "U+0155">>, <<"U+0156", "U+0157">>,
     <<"U+0158", "U+0159">>, <<"U+015A", "U+015B">>, <<"U+015C", "U+015D">>, <<"U+015E", "U+015F">>, <<"U+0160", "U+0161">>, <<"U+0162", "U+0163">>,
     <<"U+0164", "U+0165">>, <<"U+0166", "U+0167">>, <<"U+0168", "U+0169">>, <<"U+016A", "U+016B">>, <<"U+016C", "U+016D">>, <<"U+016E", "U+016F">>,
     <<"U+0170", "U+0171">>, <<"U+0172", "U+0173">>, <<"U+0174", "U+0175">>, <<"U+0176", "U+0177">>, <<"U+0178", "ÿ">>, <<"U+0179", "U+017A">>,
     <<"U+017B", "U+017C">>, <<"U+017D", "U+017E">>, <<"Ɓ", "U+0253">>, <<"Ƃ", "ƃ">>, <<"Ƅ", "ƅ">>, <<"Ɔ", "U+0254">>,
     <<"Ƈ", "ƈ">>, <<"Ɖ", "U+0256">>, <<"Ɗ", "U+0257">>, <<"Ƌ", "ƌ">>, <<"Ǝ", "ǝ">>, <<"Ə", "U+0259">>,
     <<"Ɛ", "U+025B">>, <<"Ƒ", "ƒ">>, <<"Ɠ", "U+0260">>, <<"Ɣ", "U+0263">>, <<"Ɩ", "U+0269">>, <<"Ɨ", "U+0268">>,
     <<"Ƙ", "ƙ">>, <<"Ɯ", "U+026F">>, <<"Ɲ", "U+0272">>, <<"Ɵ", "U+0275">>, <<"Ơ", "ơ">>, <<"Ƣ", "ƣ">>,
     <<"Ƥ", "ƥ">>, <<"Ʀ", "ʀ">>, <<"Ƨ", "ƨ">>, <<"Ʃ", "ʃ">>, <<"Ƭ", "ƭ">>, <<"Ʈ", "ʈ">>,
     <<"Ư", "ư">>, <<"Ʊ", "ʊ">>, <<"Ʋ", "ʋ">>, <<"Ƴ", "ƴ">>, <<"Ƶ", "ƶ">>, <<"Ʒ", "ʒ">>,
     <<"Ƹ", "ƹ">>, <<"Ƽ", "ƽ">>, <<"Ǆ", "ǆ">>, <<"ǅ", "ǆ">>, <<"Ǉ", "ǉ">>, <<"ǈ", "ǉ">>,
     <<"Ǌ", "ǌ">>, <<"ǋ", "ǌ">>, <<"Ǎ", "ǎ">>, <<"Ǐ", "ǐ">>, <<"Ǒ", "ǒ">>, <<"Ǔ", "ǔ">>,
     <<"Ǖ", "ǖ">>, <<"Ǘ", "ǘ">>, <<"Ǚ", "ǚ">>, <<"Ǜ", "ǜ">>, <<"Ǟ", "ǟ">>, <<"Ǡ", "ǡ">>,
     <<"Ǣ", "ǣ">>, <<"Ǥ", "ǥ">>, <<"Ǧ", "ǧ">>, <<"Ǩ", "ǩ">>, <<"Ǫ", "ǫ">>, <<"Ǭ", "ǭ">>,
     <<"Ǯ", "ǯ">>, <<"Ǳ", "ǳ">>, <<"ǲ", "ǳ">>, <<"Ǵ", "ǵ">>, <<"Ƕ", "ƕ">>, <<"Ƿ", "ƿ">>,
     <<"Ǹ", "ǹ">>, <<"Ǻ", "ǻ">>, <<"Ǽ", "ǽ">>, <<"Ǿ", "ǿ">>, <<"U+0200", "U+0201">>, <<"U+0202", "U+0203">>,
     <<"U+0204", "U+0205">>, <<"U+0206", "U+0207">>, <<"U+0208", "U+0209">>, <<"U+020A", "U+020B">>, <<"U+020C", "U+020D">>, <<"U+020E", "U+020F">>,
     <<"U+0210", "U+0211">>, <<"U+0212", "U+0213">>, <<"U+0214", "U+0215">>, <<"U+0216", "U+0217">>, <<"U+0218", "U+0219">>, <<"U+021A", "U+021B">>,
     <<"U+021C", "U+021D">>, <<"U+021E", "U+021F">>, <<"U+0220", "ƞ">>, <<"U+0222", "U+0223">>, <<"U+0224", "U+0225">>, <<"U+0226", "U+0227">>,
     <<"U+0228", "U+0229">>, <<"U+022A", "U+022B">>, <<"U+022C", "U+022D">>, <<"U+022E", "U+022F">>, <<"U+0230", "U+0231">>, <<"U+0232", "U+0233">>,
     <<"U+023A", "U+2C65">>, <<"U+023B", "U+023C">>, <<"U+023D", "ƚ">>, <<"U+023E", "U+2C66">>, <<"U+0241", "U+0242">>, <<"U+0243", "ƀ">>,
     <<"U+0244", "ʉ">>, <<"U+0245", "ʌ">>, <<"U+0246", "U+0247">>, <<"U+0248", "U+0249">>, <<"U+024A", "U+024B">>, <<"U+024C", "U+024D">>,
     <<"U+024E", "U+024F">>, <<"U+0370", "U+0371">>, <<"U+0372", "U+0373">>, <<"U+0376", "U+0377">>, <<"U+037F", "ϳ">>, <<"Ά", "ά">>,
     <<"Έ", "έ">>, <<"Ή", "ή">>, <<"Ί", "ί">>, <<"Ό", "ό">>, <<"Ύ", "ύ">>, <<"Ώ", "ώ">>,
     <<"Α", "α">>, <<"Β", "β">>, <<"Γ", "γ">>, <<"Δ", "δ">>, <<"Ε", "ε">>, <<"Ζ", "ζ">>,
     <<"Η", "η">>, <<"Θ", "θ">>, <<"Ι", "ι">>, <<"Κ", "κ">>, <<"Λ", "λ">>, <<"Μ", "μ">>,
     <<"Ν", "ν">>, <<"Ξ", "ξ">>, <<"Ο", "ο">>, <<"Π", "π">>, <<"Ρ", "ρ">>, <<"Σ", "σ">>,
     <<"Τ", "τ">>, <<"Υ", "υ">>, <<"Φ", "φ">>, <<"Χ", "χ">>, <<"Ψ", "ψ">>, <<"Ω", "ω">>,
     <<"Ϊ", "ϊ">>, <<"Ϋ", "ϋ">>, <<"Ϗ", "ϗ">>, <<"Ϙ", "ϙ">>, <<"Ϛ", "ϛ">>, <<"Ϝ", "ϝ">>,
     <<"Ϟ", "ϟ">>, <<"Ϡ", "ϡ">>, <<"Ϣ", "ϣ">>, <<"Ϥ", "ϥ">>, <<"Ϧ", "ϧ">>, <<"Ϩ", "ϩ">>,
     <<"Ϫ", "ϫ">>, <<"Ϭ", "ϭ">>, <<"Ϯ", "ϯ">>, <<"ϴ", "θ">>, <<"Ϸ", "ϸ">>, <<"Ϲ", "ϲ">>,
     <<"Ϻ", "ϻ">>, <<"Ͻ", "U+037B">>, <<"Ͼ", "U+037C">>, <<"Ͽ", "U+037D">>, <<"U+0400", "U+0450">>, <<"U+0401", "U+0451">>,
     <<"U+0402", "U+0452">>, <<"U+0403", "U+0453">>, <<"U+0404", "U+0454">>, <<"U+0405", "U+0455">>, <<"U+0406", "U+0456">>, <<"U+0407", "U+0457">>,
     <<"U+0408", "U+0458">>, <<"U+0409", "U+0459">>, <<"U+040A", "U+045A">>, <<"U+040B", "U+045B">>, <<"U+040C", "U+045C">>, <<"U+040D", "U+045D">>,
     <<"U+040E", "U+045E">>, <<"U+040F", "U+045F">>, <<"U+0410", "U+0430">>, <<"U+0411", "U+0431">>, <<"U+0412", "U+0432">>, <<"U+0413", "U+0433">>,
     <<"U+0414", "U+0434">>, <<"U+0415", "U+0435">>, <<"U+0416", "U+0436">>, <<"U+0417", "U+0437">>, <<"U+0418", "U+0438">>, <<"U+0419", "U+0439">>,
     <<"U+041A", "U+043A">>, <<"U+041B", "U+043B">>, <<"U+041C", "U+043C">>, <<"U+041D", "U+043D">>, <<"U+041E", "U+043E">>, <<"U+041F", "U+043F">>,
     <<"U+0420", "U+0440">>, <<"U+0421", "U+0441">>, <<"U+0422", "U+0442">>, <<"U+0423", "U+0443">>, <<"U+0424", "U+0444">>, <<"U+0425", "U+0445">>,
     <<"U+0426", "U+0446">>, <<"U+0427", "U+0447">>, <<"U+0428", "U+0448">>, <<"U+0429", "U+0449">>, <<"U+042A", "U+044A">>, <<"U+042B", "U+044B">>,
     <<"U+042C", "U+044C">>, <<"U+042D", "U+044D">>, <<"U+042E", "U+044E">>, <<"U+042F", "U+044F">>, <<"U+0460", "U+0461">>, <<"U+0462", "U+0463">>,
     <<"U+0464", "U+0465">>, <<"U+0466", "U+0467">>, <<"U+0468", "U+0469">>, <<"U+046A", "U+046B">>, <<"U+046C", "U+046D">>, <<"U+046E", "U+046F">>,
     <<"U+0470", "U+0471">>, <<"U+0472", "U+0473">>, <<"U+0474", "U+0475">>, <<"U+0476", "U+0477">>, <<"U+0478", "U+0479">>, <<"U+047A", "U+047B">>,
     <<"U+047C", "U+047D">>, <<"U+047E", "U+047F">>, <<"Ҁ", "ҁ">>, <<"Ҋ", "ҋ">>, <<"Ҍ", "ҍ">>, <<"Ҏ", "ҏ">>,
     <<"Ґ", "ґ">>, <<"Ғ", "ғ">>, <<"Ҕ", "ҕ">>, <<"Җ", "җ">>, <<"Ҙ", "ҙ">>, <<"Қ", "қ">>,
     <<"Ҝ", "ҝ">>, <<"Ҟ", "ҟ">>, <<"Ҡ", "ҡ">>, <<"Ң", "ң">>, <<"Ҥ", "ҥ">>, <<"Ҧ", "ҧ">>,
     <<"Ҩ", "ҩ">>, <<"Ҫ", "ҫ">>, <<"Ҭ", "ҭ">>, <<"Ү", "ү">>, <<"Ұ", "ұ">>, <<"Ҳ", "ҳ">>,
     <<"Ҵ", "ҵ">>, <<"Ҷ", "ҷ">>, <<"Ҹ", "ҹ">>, <<"Һ", "һ">>, <<"Ҽ", "ҽ">>, <<"Ҿ", "ҿ">>,
     <<"Ӏ", "ӏ">>, <<"Ӂ", "ӂ">>, <<"Ӄ", "ӄ">>, <<"Ӆ", "ӆ">>, <<"Ӈ", "ӈ">>, <<"Ӊ", "ӊ">>,
     <<"Ӌ", "ӌ">>, <<"Ӎ", "ӎ">>, <<"Ӑ", "ӑ">>, <<"Ӓ", "ӓ">>, <<"Ӕ", "ӕ">>, <<"Ӗ", "ӗ">>,
     <<"Ә", "ә">>, <<"Ӛ", "ӛ">>, <<"Ӝ", "ӝ">>, <<"Ӟ", "ӟ">>, <<"Ӡ", "ӡ">>, <<"Ӣ", "ӣ">>,
     <<"Ӥ", "ӥ">>, <<"Ӧ", "ӧ">>, <<"Ө", "ө">>, <<"Ӫ", "ӫ">>, <<"Ӭ", "ӭ">>, <<"Ӯ", "ӯ">>,
     <<"Ӱ", "ӱ">>, <<"Ӳ", "ӳ">>, <<"Ӵ", "ӵ">>, <<"Ӷ", "ӷ">>, <<"Ӹ", "ӹ">>, <<"Ӻ", "ӻ">>,
     <<"Ӽ", "ӽ">>, <<"Ӿ", "ӿ">>, <<"U+0500", "U+0501">>, <<"U+0502", "U+0503">>, <<"U+0504", "U+0505">>, <<"U+0506", "U+0507">>,
     <<"U+0508", "U+0509">>, <<"U+050A", "U+050B">>, <<"U+050C", "U+050D">>, <<"U+050E", "U+050F">>, <<"U+0510", "U+0511">>, <<"U+0512", "U+0513">>,
     <<"U+0514", "U+0515">>, <<"U+0516", "U+0517">>, <<"U+0518", "U+0519">>, <<"U+051A", "U+051B">>, <<"U+051C", "U+051D">>, <<"U+051E", "U+051F">>,
     <<"U+0520", "U+0521">>, <<"U+0522", "U+0523">>, <<"U+0524", "U+0525">>, <<"U+0526", "U+0527">>, <<"U+0528", "U+0529">>, <<"U+052A", "U+052B">>,
     <<"U+052C", "U+052D">>, <<"U+052E", "U+052F">>, <<"U+0531", "U+0561">>, <<"U+0532", "U+0562">>, <<"U+0533", "U+0563">>, <<"U+0534", "U+0564">>,
     <<"U+0535", "U+0565">>, <<"U+0536", "U+0566">>, <<"U+0537", "U+0567">>, <<"U+0538", "U+0568">>, <<"U+0539", "U+0569">>, <<"U+053A", "U+056A">>,
     <<"U+053B", "U+056B">>, <<"U+053C", "U+056C">>, <<"U+053D", "U+056D">>, <<"U+053E", "U+056E">>, <<"U+053F", "U+056F">>, <<"U+0540", "U+0570">>,
     <<"U+0541", "U+0571">>, <<"U+0542", "U+0572">>, <<"U+0543", "U+0573">>, <<"U+0544", "U+0574">>, <<"U+0545", "U+0575">>, <<"U+0546", "U+0576">>,
     <<"U+0547", "U+0577">>, <<"U+0548", "U+0578">>, <<"U+0549", "U+0579">>, <<"U+054A", "U+057A">>, <<"U+054B", "U+057B">>, <<"U+054C", "U+057C">>,
     <<"U+054D", "U+057D">>, <<"U+054E", "U+057E">>, <<"U+054F", "U+057F">>, <<"U+0550", "ր">>, <<"U+0551", "ց">>, <<"U+0552", "ւ">>,
     <<"U+0553", "փ">>, <<"U+0554", "ք">>, <<"U+0555", "օ">>, <<"U+0556", "ֆ">>, <<"Ⴀ", "U+2D00">>, <<"Ⴁ", "U+2D01">>,
     <<"Ⴂ", "U+2D02">>, <<"Ⴃ", "U+2D03">>, <<"Ⴄ", "U+2D04">>, <<"Ⴅ", "U+2D05">>, <<"Ⴆ", "U+2D06">>, <<"Ⴇ", "U+2D07">>,
     <<"Ⴈ", "U+2D08">>, <<"Ⴉ", "U+2D09">>, <<"Ⴊ", "U+2D0A">>, <<"Ⴋ", "U+2D0B">>, <<"Ⴌ", "U+2D0C">>, <<"Ⴍ", "U+2D0D">>,
     <<"Ⴎ", "U+2D0E">>, <<"Ⴏ", "U+2D0F">>, <<"Ⴐ", "U+2D10">>, <<"Ⴑ", "U+2D11">>, <<"Ⴒ", "U+2D12">>, <<"Ⴓ", "U+2D13">>,
     <<"Ⴔ", "U+2D14">>, <<"Ⴕ", "U+2D15">>, <<"Ⴖ", "U+2D16">>, <<"Ⴗ", "U+2D17">>, <<"Ⴘ", "U+2D18">>, <<"Ⴙ", "U+2D19">>,
     <<"Ⴚ", "U+2D1A">>, <<"Ⴛ", "U+2D1B">>, <<"Ⴜ", "U+2D1C">>, <<"Ⴝ", "U+2D1D">>, <<"Ⴞ", "U+2D1E">>, <<"Ⴟ", "U+2D1F">>,
     <<"Ⴠ", "U+2D20">>, <<"Ⴡ", "U+2D21">>, <<"Ⴢ", "U+2D22">>, <<"Ⴣ", "U+2D23">>, <<"Ⴤ", "U+2D24">>, <<"Ⴥ", "U+2D25">>,
     <<"Ⴧ", "U+2D27">>, <<"Ⴭ", "U+2D2D">>, <<"Ꭰ", "U+AB70">>, <<"Ꭱ", "U+AB71">>, <<"Ꭲ", "U+AB72">>, <<"Ꭳ", "U+AB73">>,
     <<"Ꭴ", "U+AB74">>, <<"Ꭵ", "U+AB75">>, <<"Ꭶ", "U+AB76">>, <<"Ꭷ", "U+AB77">>, <<"Ꭸ", "U+AB78">>, <<"Ꭹ", "U+AB79">>,
     <<"Ꭺ", "U+AB7A">>, <<"Ꭻ", "U+AB7B">>, <<"Ꭼ", "U+AB7C">>, <<"Ꭽ", "U+AB7D">>, <<"Ꭾ", "U+AB7E">>, <<"Ꭿ", "U+AB7F">>,
     <<"Ꮀ", "ꮀ">>, <<"Ꮁ", "ꮁ">>, <<"Ꮂ", "ꮂ">>, <<"Ꮃ", "ꮃ">>, <<"Ꮄ", "ꮄ">>, <<"Ꮅ", "ꮅ">>,
     <<"Ꮆ", "ꮆ">>, <<"Ꮇ", "ꮇ">>, <<"Ꮈ", "ꮈ">>, <<"Ꮉ", "ꮉ">>, <<"Ꮊ", "ꮊ">>, <<"Ꮋ", "ꮋ">>,
     <<"Ꮌ", "ꮌ">>, <<"Ꮍ", "ꮍ">>, <<"Ꮎ", "ꮎ">>, <<"Ꮏ", "ꮏ">>, <<"Ꮐ", "ꮐ">>, <<"Ꮑ", "ꮑ">>,
     <<"Ꮒ", "ꮒ">>, <<"Ꮓ", "ꮓ">>, <<"Ꮔ", "ꮔ">>, <<"Ꮕ", "ꮕ">>, <<"Ꮖ", "ꮖ">>, <<"Ꮗ", "ꮗ">>,
     <<"Ꮘ", "ꮘ">>, <<"Ꮙ", "ꮙ">>, <<"Ꮚ", "ꮚ">>, <<"Ꮛ", "ꮛ">>, <<"Ꮜ", "ꮜ">>, <<"Ꮝ", "ꮝ">>,
     <<"Ꮞ", "ꮞ">>, <<"Ꮟ", "ꮟ">>, <<"Ꮠ", "ꮠ">>, <<"Ꮡ", "ꮡ">>, <<"Ꮢ", "ꮢ">>, <<"Ꮣ", "ꮣ">>,
     <<"Ꮤ", "ꮤ">>, <<"Ꮥ", "ꮥ">>, <<"Ꮦ", "ꮦ">>, <<"Ꮧ", "ꮧ">>, <<"Ꮨ", "ꮨ">>, <<"Ꮩ", "ꮩ">>,
     <<"Ꮪ", "ꮪ">>, <<"Ꮫ", "ꮫ">>, <<"Ꮬ", "ꮬ">>, <<"Ꮭ", "ꮭ">>, <<"Ꮮ", "ꮮ">>, <<"Ꮯ", "ꮯ">>,
     <<"Ꮰ", "ꮰ">>, <<"Ꮱ", "ꮱ">>, <<"Ꮲ", "ꮲ">>, <<"Ꮳ", "ꮳ">>, <<"Ꮴ", "ꮴ">>, <<"Ꮵ", "ꮵ">>,
     <<"Ꮶ", "ꮶ">>, <<"Ꮷ", "ꮷ">>, <<"Ꮸ", "ꮸ">>, <<"Ꮹ", "ꮹ">>, <<"Ꮺ", "ꮺ">>, <<"Ꮻ", "ꮻ">>,
     <<"Ꮼ", "ꮼ">>, <<"Ꮽ", "ꮽ">>, <<"Ꮾ", "ꮾ">>, <<"Ꮿ", "ꮿ">>, <<"Ᏸ", "ᏸ">>, <<"Ᏹ", "ᏹ">>,
     <<"Ᏺ", "ᏺ">>, <<"Ᏻ", "ᏻ">>, <<"Ᏼ", "ᏼ">>, <<"Ᏽ", "ᏽ">>, <<"Ᲊ", "ᲊ">>, <<"Ა", "ა">>,
     <<"Ბ", "ბ">>, <<"Გ", "გ">>, <<"Დ", "დ">>, <<"Ე", "ე">>, <<"Ვ", "ვ">>, <<"Ზ", "ზ">>,
     <<"Თ", "თ">>, <<"Ი", "ი">>, <<"Კ", "კ">>, <<"Ლ", "ლ">>, <<"Მ", "მ">>, <<"Ნ", "ნ">>,
     <<"Ო", "ო">>, <<"Პ", "პ">>, <<"Ჟ", "ჟ">>, <<"Რ", "რ">>, <<"Ს", "ს">>, <<"Ტ", "ტ">>,
     <<"Უ", "უ">>, <<"Ფ", "ფ">>, <<"Ქ", "ქ">>, <<"Ღ", "ღ">>, <<"Ყ", "ყ">>, <<"Შ", "შ">>,
     <<"Ჩ", "ჩ">>, <<"Ც", "ც">>, <<"Ძ", "ძ">>, <<"Წ", "წ">>, <<"Ჭ", "ჭ">>, <<"Ხ", "ხ">>,
     <<"Ჯ", "ჯ">>, <<"Ჰ", "ჰ">>, <<"Ჱ", "ჱ">>, <<"Ჲ", "ჲ">>, <<"Ჳ", "ჳ">>, <<"Ჴ", "ჴ">>,
     <<"Ჵ", "ჵ">>, <<"Ჶ", "ჶ">>, <<"Ჷ", "ჷ">>, <<"Ჸ", "ჸ">>, <<"Ჹ", "ჹ">>, <<"Ჺ", "ჺ">>,
     <<"Ჽ", "ჽ">>, <<"Ჾ", "ჾ">>, <<"Ჿ", "ჿ">>, <<"U+1E00", "U+1E01">>, <<"U+1E02", "U+1E03">>, <<"U+1E04", "U+1E05">>,
     <<"U+1E06", "U+1E07">>, <<"U+1E08", "U+1E09">>, <<"U+1E0A", "U+1E0B">>, <<"U+1E0C", "U+1E0D">>, <<"U+1E0E", "U+1E0F">>, <<"U+1E10", "U+1E11">>,
     <<"U+1E12", "U+1E13">>, <<"U+1E14", "U+1E15">>, <<"U+1E16", "U+1E17">>, <<"U+1E18", "U+1E19">>, <<"U+1E1A", "U+1E1B">>, <<"U+1E1C", "U+1E1D">>,
     <<"U+1E1E", "U+1E1F">>, <<"U+1E20", "U+1E21">>, <<"U+1E22", "U+1E23">>, <<"U+1E24", "U+1E25">>, <<"U+1E26", "U+1E27">>, <<"U+1E28", "U+1E29">>,
     <<"U+1E2A", "U+1E2B">>, <<"U+1E2C", "U+1E2D">>, <<"U+1E2E", "U+1E2F">>, <<"U+1E30", "U+1E31">>, <<"U+1E32", "U+1E33">>, <<"U+1E34", "U+1E35">>,
     <<"U+1E36", "U+1E37">>, <<"U+1E38", "U+1E39">>, <<"U+1E3A", "U+1E3B">>, <<"U+1E3C", "U+1E3D">>, <<"U+1E3E", "U+1E3F">>, <<"U+1E40", "U+1E41">>,
     <<"U+1E42", "U+1E43">>, <<"U+1E44", "U+1E45">>, <<"U+1E46", "U+1E47">>, <<"U+1E48", "U+1E49">>, <<"U+1E4A", "U+1E4B">>, <<"U+1E4C", "U+1E4D">>,
     <<"U+1E4E", "U+1E4F">>, <<"U+1E50", "U+1E51">>, <<"U+1E52", "U+1E53">>, <<"U+1E54", "U+1E55">>, <<"U+1E56", "U+1E57">>, <<"U+1E58", "U+1E59">>,
     <<"U+1E5A", "U+1E5B">>, <<"U+1E5C", "U+1E5D">>, <<"U+1E5E", "U+1E5F">>, <<"U+1E60", "U+1E61">>, <<"U+1E62", "U+1E63">>, <<"U+1E64", "U+1E65">>,
     <<"U+1E66", "U+1E67">>, <<"U+1E68", "U+1E69">>, <<"U+1E6A", "U+1E6B">>, <<"U+1E6C", "U+1E6D">>, <<"U+1E6E", "U+1E6F">>, <<"U+1E70", "U+1E71">>,
     <<"U+1E72", "U+1E73">>, <<"U+1E74", "U+1E75">>, <<"U+1E76", "U+1E77">>, <<"U+1E78", "U+1E79">>, <<"U+1E7A", "U+1E7B">>, <<"U+1E7C", "U+1E7D">>,
     <<"U+1E7E", "U+1E7F">>, <<"Ẁ", "ẁ">>, <<"Ẃ", "ẃ">>, <<"Ẅ", "ẅ">>, <<"Ẇ", "ẇ">>, <<"Ẉ", "ẉ">>,
     <<"Ẋ", "ẋ">>, <<"Ẍ", "ẍ">>, <<"Ẏ", "ẏ">>, <<"Ẑ", "ẑ">>, <<"Ẓ", "ẓ">>, <<"Ẕ", "ẕ">>,
     <<"ẞ", "ß">>, <<"Ạ", "ạ">>, <<"Ả", "ả">>, <<"Ấ", "ấ">>, <<"Ầ", "ầ">>, <<"Ẩ", "ẩ">>,
     <<"Ẫ", "ẫ">>, <<"Ậ", "ậ">>, <<"Ắ", "ắ">>, <<"Ằ", "ằ">>, <<"Ẳ", "ẳ">>, <<"Ẵ", "ẵ">>,
     <<"Ặ", "ặ">>, <<"Ẹ", "ẹ">>, <<"Ẻ", "ẻ">>, <<"Ẽ", "ẽ">>, <<"Ế", "ế">>, <<"Ề", "ề">>,
     <<"Ể", "ể">>, <<"Ễ", "ễ">>, <<"Ệ", "ệ">>, <<"Ỉ", "ỉ">>, <<"Ị", "ị">>, <<"Ọ", "ọ">>,
     <<"Ỏ", "ỏ">>, <<"Ố", "ố">>, <<"Ồ", "ồ">>, <<"Ổ", "ổ">>, <<"Ỗ", "ỗ">>, <<"Ộ", "ộ">>,
     <<"Ớ", "ớ">>, <<"Ờ", "ờ">>, <<"Ở", "ở">>, <<"Ỡ", "ỡ">>, <<"Ợ", "ợ">>, <<"Ụ", "ụ">>,
     <<"Ủ", "ủ">>, <<"Ứ", "ứ">>, <<"Ừ", "ừ">>, <<"Ử", "ử">>, <<"Ữ", "ữ">>, <<"Ự", "ự">>,
     <<"Ỳ", "ỳ">>, <<"Ỵ", "ỵ">>, <<"Ỷ", "ỷ">>, <<"Ỹ", "ỹ">>, <<"Ỻ", "ỻ">>, <<"Ỽ", "ỽ">>,
     <<"Ỿ", "ỿ">>, <<"U+1F08", "U+1F00">>, <<"U+1F09", "U+1F01">>, <<"U+1F0A", "U+1F02">>, <<"U+1F0B", "U+1F03">>, <<"U+1F0C", "U+1F04">>,
     <<"U+1F0D", "U+1F05">>, <<"U+1F0E", "U+1F06">>, <<"U+1F0F", "U+1F07">>, <<"U+1F18", "U+1F10">>, <<"U+1F19", "U+1F11">>, <<"U+1F1A", "U+1F12">>,
     <<"U+1F1B", "U+1F13">>, <<"U+1F1C", "U+1F14">>, <<"U+1F1D", "U+1F15">>, <<"U+1F28", "U+1F20">>, <<"U+1F29", "U+1F21">>, <<"U+1F2A", "U+1F22">>,
     <<"U+1F2B", "U+1F23">>, <<"U+1F2C", "U+1F24">>, <<"U+1F2D", "U+1F25">>, <<"U+1F2E", "U+1F26">>, <<"U+1F2F", "U+1F27">>, <<"U+1F38", "U+1F30">>,
     <<"U+1F39", "U+1F31">>, <<"U+1F3A", "U+1F32">>, <<"U+1F3B", "U+1F33">>, <<"U+1F3C", "U+1F34">>, <<"U+1F3D", "U+1F35">>, <<"U+1F3E", "U+1F36">>,
     <<"U+1F3F", "U+1F37">>, <<"U+1F48", "U+1F40">>, <<"U+1F49", "U+1F41">>, <<"U+1F4A", "U+1F42">>, <<"U+1F4B", "U+1F43">>, <<"U+1F4C", "U+1F44">>,
     <<"U+1F4D", "U+1F45">>, <<"U+1F59", "U+1F51">>, <<"U+1F5B", "U+1F53">>, <<"U+1F5D", "U+1F55">>, <<"U+1F5F", "U+1F57">>, <<"U+1F68", "U+1F60">>,
     <<"U+1F69", "U+1F61">>, <<"U+1F6A", "U+1F62">>, <<"U+1F6B", "U+1F63">>, <<"U+1F6C", "U+1F64">>, <<"U+1F6D", "U+1F65">>, <<"U+1F6E", "U+1F66">>,
     <<"U+1F6F", "U+1F67">>, <<"ᾈ", "ᾀ">>, <<"ᾉ", "ᾁ">>, <<"ᾊ", "ᾂ">>, <<"ᾋ", "ᾃ">>, <<"ᾌ", "ᾄ">>,
     <<"ᾍ", "ᾅ">>, <<"ᾎ", "ᾆ">>, <<"ᾏ", "ᾇ">>, <<"ᾘ", "ᾐ">>, <<"ᾙ", "ᾑ">>, <<"ᾚ", "ᾒ">>,
     <<"ᾛ", "ᾓ">>, <<"ᾜ", "ᾔ">>, <<"ᾝ", "ᾕ">>, <<"ᾞ", "ᾖ">>, <<"ᾟ", "ᾗ">>, <<"ᾨ", "ᾠ">>,
     <<"ᾩ", "ᾡ">>, <<"ᾪ", "ᾢ">>, <<"ᾫ", "ᾣ">>, <<"ᾬ", "ᾤ">>, <<"ᾭ", "ᾥ">>, <<"ᾮ", "ᾦ">>,
     <<"ᾯ", "ᾧ">>, <<"Ᾰ", "ᾰ">>, <<"Ᾱ", "ᾱ">>, <<"Ὰ", "U+1F70">>, <<"Ά", "U+1F71">>, <<"ᾼ", "ᾳ">>,
     <<"Ὲ", "U+1F72">>, <<"Έ", "U+1F73">>, <<"Ὴ", "U+1F74">>, <<"Ή", "U+1F75">>, <<"ῌ", "ῃ">>, <<"Ῐ", "ῐ">>,
     <<"Ῑ", "ῑ">>, <<"Ὶ", "U+1F76">>, <<"Ί", "U+1F77">>, <<"Ῠ", "ῠ">>, <<"Ῡ", "ῡ">>, <<"Ὺ", "U+1F7A">>,
     <<"Ύ", "U+1F7B">>, <<"Ῥ", "ῥ">>, <<"Ὸ", "U+1F78">>, <<"Ό", "U+1F79">>, <<"Ὼ", "U+1F7C">>, <<"Ώ", "U+1F7D">>,
     <<"ῼ", "ῳ">>, <<"U+2126", "ω">>, <<"U+212A", "k">>, <<"U+212B", "å">>, <<"U+2132", "U+214E">>, <<"U+2160", "U+2170">>,
     <<"U+2161", "U+2171">>, <<"U+2162", "U+2172">>, <<"U+2163", "U+2173">>, <<"U+2164", "U+2174">>, <<"U+2165", "U+2175">>, <<"U+2166", "U+2176">>,
     <<"U+2167", "U+2177">>, <<"U+2168", "U+2178">>, <<"U+2169", "U+2179">>, <<"U+216A", "U+217A">>, <<"U+216B", "U+217B">>, <<"U+216C", "U+217C">>,
     <<"U+216D", "U+217D">>, <<"U+216E", "U+217E">>, <<"U+216F", "U+217F">>, <<"Ↄ", "ↄ">>, <<"Ⓐ", "ⓐ">>, <<"Ⓑ", "ⓑ">>,
     <<"Ⓒ", "ⓒ">>, <<"Ⓓ", "ⓓ">>, <<"Ⓔ", "ⓔ">>, <<"Ⓕ", "ⓕ">>, <<"Ⓖ", "ⓖ">>, <<"Ⓗ", "ⓗ">>,
     <<"Ⓘ", "ⓘ">>, <<"Ⓙ", "ⓙ">>, <<"Ⓚ", "ⓚ">>, <<"Ⓛ", "ⓛ">>, <<"Ⓜ", "ⓜ">>, <<"Ⓝ", "ⓝ">>,
     <<"Ⓞ", "ⓞ">>, <<"Ⓟ", "ⓟ">>, <<"Ⓠ", "ⓠ">>, <<"Ⓡ", "ⓡ">>, <<"Ⓢ", "ⓢ">>, <<"Ⓣ", "ⓣ">>,
     <<"Ⓤ", "ⓤ">>, <<"Ⓥ", "ⓥ">>, <<"Ⓦ", "ⓦ">>, <<"Ⓧ", "ⓧ">>, <<"Ⓨ", "ⓨ">>, <<"Ⓩ", "ⓩ">>,
     <<"U+2C00", "U+2C30">>, <<"U+2C01", "U+2C31">>, <<"U+2C02", "U+2C32">>, <<"U+2C03", "U+2C33">>, <<"U+2C04", "U+2C34">>, <<"U+2C05", "U+2C35">>,
     <<"U+2C06", "U+2C36">>, <<"U+2C07", "U+2C37">>, <<"U+2C08", "U+2C38">>, <<"U+2C09", "U+2C39">>, <<"U+2C0A", "U+2C3A">>, <<"U+2C0B", "U+2C3B">>,
     <<"U+2C0C", "U+2C3C">>, <<"U+2C0D", "U+2C3D">>, <<"U+2C0E", "U+2C3E">>, <<"U+2C0F", "U+2C3F">>, <<"U+2C10", "U+2C40">>, <<"U+2C11", "U+2C41">>,
     <<"U+2C12", "U+2C42">>, <<"U+2C13", "U+2C43">>, <<"U+2C14", "U+2C44">>, <<"U+2C15", "U+2C45">>, <<"U+2C16", "U+2C46">>, <<"U+2C17", "U+2C47">>,
     <<"U+2C18", "U+2C48">>, <<"U+2C19", "U+2C49">>, <<"U+2C1A", "U+2C4A">>, <<"U+2C1B", "U+2C4B">>, <<"U+2C1C", "U+2C4C">>, <<"U+2C1D", "U+2C4D">>,
     <<"U+2C1E", "U+2C4E">>, <<"U+2C1F", "U+2C4F">>, <<"U+2C20", "U+2C50">>, <<"U+2C21", "U+2C51">>, <<"U+2C22", "U+2C52">>, <<"U+2C23", "U+2C53">>,
     <<"U+2C24", "U+2C54">>, <<"U+2C25", "U+2C55">>, <<"U+2C26", "U+2C56">>, <<"U+2C27", "U+2C57">>, <<"U+2C28", "U+2C58">>, <<"U+2C29", "U+2C59">>,
     <<"U+2C2A", "U+2C5A">>, <<"U+2C2B", "U+2C5B">>, <<"U+2C2C", "U+2C5C">>, <<"U+2C2D", "U+2C5D">>, <<"U+2C2E", "U+2C5E">>, <<"U+2C2F", "U+2C5F">>,
     <<"U+2C60", "U+2C61">>, <<"U+2C62", "U+026B">>, <<"U+2C63", "U+1D7D">>, <<"U+2C64", "U+027D">>, <<"U+2C67", "U+2C68">>, <<"U+2C69", "U+2C6A">>,
     <<"U+2C6B", "U+2C6C">>, <<"U+2C6D", "U+0251">>, <<"U+2C6E", "U+0271">>, <<"U+2C6F", "U+0250">>, <<"U+2C70", "U+0252">>, <<"U+2C72", "U+2C73">>,
     <<"U+2C75", "U+2C76">>, <<"U+2C7E", "U+023F">>, <<"U+2C7F", "U+0240">>, <<"Ⲁ", "ⲁ">>, <<"Ⲃ", "ⲃ">>, <<"Ⲅ", "ⲅ">>,
     <<"Ⲇ", "ⲇ">>, <<"Ⲉ", "ⲉ">>, <<"Ⲋ", "ⲋ">>, <<"Ⲍ", "ⲍ">>, <<"Ⲏ", "ⲏ">>, <<"Ⲑ", "ⲑ">>,
     <<"Ⲓ", "ⲓ">>, <<"Ⲕ", "ⲕ">>, <<"Ⲗ", "ⲗ">>, <<"Ⲙ", "ⲙ">>, <<"Ⲛ", "ⲛ">>, <<"Ⲝ", "ⲝ">>,
     <<"Ⲟ", "ⲟ">>, <<"Ⲡ", "ⲡ">>, <<"Ⲣ", "ⲣ">>, <<"Ⲥ", "ⲥ">>, <<"Ⲧ", "ⲧ">>, <<"Ⲩ", "ⲩ">>,
     <<"Ⲫ", "ⲫ">>, <<"Ⲭ", "ⲭ">>, <<"Ⲯ", "ⲯ">>, <<"Ⲱ", "ⲱ">>, <<"Ⲳ", "ⲳ">>, <<"Ⲵ", "ⲵ">>,
     <<"Ⲷ", "ⲷ">>, <<"Ⲹ", "ⲹ">>, <<"Ⲻ", "ⲻ">>, <<"Ⲽ", "ⲽ">>, <<"Ⲿ", "ⲿ">>, <<"Ⳁ", "ⳁ">>,
     <<"Ⳃ", "ⳃ">>, <<"Ⳅ", "ⳅ">>, <<"Ⳇ", "ⳇ">>, <<"Ⳉ", "ⳉ">>, <<"Ⳋ", "ⳋ">>, <<"Ⳍ", "ⳍ">>,
     <<"Ⳏ", "ⳏ">>, <<"Ⳑ", "ⳑ">>, <<"Ⳓ", "ⳓ">>, <<"Ⳕ", "ⳕ">>, <<"Ⳗ", "ⳗ">>, <<"Ⳙ", "ⳙ">>,
     <<"Ⳛ", "ⳛ">>, <<"Ⳝ", "ⳝ">>, <<"Ⳟ", "ⳟ">>, <<"Ⳡ", "ⳡ">>, <<"Ⳣ", "ⳣ">>, <<"Ⳬ", "ⳬ">>,
     <<"Ⳮ", "ⳮ">>, <<"Ⳳ", "ⳳ">>, <<"U+A640", "U+A641">>, <<"U+A642", "U+A643">>, <<"U+A644", "U+A645">>, <<"U+A646", "U+A647">>,
     <<"U+A648", "U+A649">>, <<"U+A64A", "U+A64B">>, <<"U+A64C", "U+A64D">>, <<"U+A64E", "U+A64F">>, <<"U+A650", "U+A651">>, <<"U+A652", "U+A653">>,
     <<"U+A654", "U+A655">>, <<"U+A656", "U+A657">>, <<"U+A658", "U+A659">>, <<"U+A65A", "U+A65B">>, <<"U+A65C", "U+A65D">>, <<"U+A65E", "U+A65F">>,
     <<"U+A660", "U+A661">>, <<"U+A662", "U+A663">>, <<"U+A664", "U+A665">>, <<"U+A666", "U+A667">>, <<"U+A668", "U+A669">>, <<"U+A66A", "U+A66B">>,
     <<"U+A66C", "U+A66D">>, <<"Ꚁ", "ꚁ">>, <<"Ꚃ", "ꚃ">>, <<"Ꚅ", "ꚅ">>, <<"Ꚇ", "ꚇ">>, <<"Ꚉ", "ꚉ">>,
     <<"Ꚋ", "ꚋ">>, <<"Ꚍ", "ꚍ">>, <<"Ꚏ", "ꚏ">>, <<"Ꚑ", "ꚑ">>, <<"Ꚓ", "ꚓ">>, <<"Ꚕ", "ꚕ">>,
     <<"Ꚗ", "ꚗ">>, <<"Ꚙ", "ꚙ">>, <<"Ꚛ", "ꚛ">>, <<"U+A722", "U+A723">>, <<"U+A724", "U+A725">>, <<"U+A726", "U+A727">>,
     <<"U+A728", "U+A729">>, <<"U+A72A", "U+A72B">>, <<"U+A72C", "U+A72D">>, <<"U+A72E", "U+A72F">>, <<"U+A732", "U+A733">>, <<"U+A734", "U+A735">>,
     <<"U+A736", "U+A737">>, <<"U+A738", "U+A739">>, <<"U+A73A", "U+A73B">>, <<"U+A73C", "U+A73D">>, <<"U+A73E", "U+A73F">>, <<"U+A740", "U+A741">>,
     <<"U+A742", "U+A743">>, <<"U+A744", "U+A745">>, <<"U+A746", "U+A747">>, <<"U+A748", "U+A749">>, <<"U+A74A", "U+A74B">>, <<"U+A74C", "U+A74D">>,
     <<"U+A74E", "U+A74F">>, <<"U+A750", "U+A751">>, <<"U+A752", "U+A753">>, <<"U+A754", "U+A755">>, <<"U+A756", "U+A757">>, <<"U+A758", "U+A759">>,
     <<"U+A75A", "U+A75B">>, <<"U+A75C", "U+A75D">>, <<"U+A75E", "U+A75F">>, <<"U+A760", "U+A761">>, <<"U+A762", "U+A763">>, <<"U+A764", "U+A765">>,
     <<"U+A766", "U+A767">>, <<"U+A768", "U+A769">>, <<"U+A76A", "U+A76B">>, <<"U+A76C", "U+A76D">>, <<"U+A76E", "U+A76F">>, <<"U+A779", "U+A77A">>,
     <<"U+A77B", "U+A77C">>, <<"U+A77D", "U+1D79">>, <<"U+A77E", "U+A77F">>, <<"Ꞁ", "ꞁ">>, <<"Ꞃ", "ꞃ">>, <<"Ꞅ", "ꞅ">>,
     <<"Ꞇ", "ꞇ">>, <<"Ꞌ", "ꞌ">>, <<"Ɥ", "U+0265">>, <<"Ꞑ", "ꞑ">>, <<"Ꞓ", "ꞓ">>, <<"Ꞗ", "ꞗ">>,
     <<"Ꞙ", "ꞙ">>, <<"Ꞛ", "ꞛ">>, <<"Ꞝ", "ꞝ">>, <<"Ꞟ", "ꞟ">>, <<"Ꞡ", "ꞡ">>, <<"Ꞣ", "ꞣ">>,
     <<"Ꞥ", "ꞥ">>, <<"Ꞧ", "ꞧ">>, <<"Ꞩ", "ꞩ">>, <<"Ɦ", "U+0266">>, <<"Ɜ", "U+025C">>, <<"Ɡ", "U+0261">>,
     <<"Ɬ", "U+026C">>, <<"Ɪ", "U+026A">>, <<"Ʞ", "ʞ">>, <<"Ʇ", "ʇ">>, <<"Ʝ", "ʝ">>, <<"Ꭓ", "U+AB53">>,
     <<"Ꞵ", "ꞵ">>, <<"Ꞷ", "ꞷ">>, <<"Ꞹ", "ꞹ">>, <<"Ꞻ", "ꞻ">>, <<"Ꞽ", "ꞽ">>, <<"Ꞿ", "ꞿ">>,
     <<"Ꟁ", "ꟁ">>, <<"Ꟃ", "ꟃ">>, <<"Ꞔ", "ꞔ">>, <<"Ʂ", "ʂ">>, <<"Ᶎ", "ᶎ">>, <<"Ꟈ", "ꟈ">>,
     <<"Ꟊ", "ꟊ">>, <<"Ɤ", "U+0264">>, <<"Ꟍ", "ꟍ">>, <<"꟎", "꟏">>, <<"Ꟑ", "ꟑ">>, <<"꟒", "ꟓ">>,
     <<"꟔", "ꟕ">>, <<"Ꟗ", "ꟗ">>, <<"Ꟙ", "ꟙ">>, <<"Ꟛ", "ꟛ">>, <<"Ƛ", "ƛ">>, <<"Ꟶ", "ꟶ">>,
     <<"U+FF21", "U+FF41">>, <<"U+FF22", "U+FF42">>, <<"U+FF23", "U+FF43">>, <<"U+FF24", "U+FF44">>, <<"U+FF25", "U+FF45">>, <<"U+FF26", "U+FF46">>,
     <<"U+FF27", "U+FF47">>, <<"U+FF28", "U+FF48">>, <<"U+FF29", "U+FF49">>, <<"U+FF2A", "U+FF4A">>, <<"U+FF2B", "U+FF4B">>, <<"U+FF2C", "U+FF4C">>,
     <<"U+FF2D", "U+FF4D">>, <<"U+FF2E", "U+FF4E">>, <<"U+FF2F", "U+FF4F">>, <<"U+FF30", "U+FF50">>, <<"U+FF31", "U+FF51">>, <<"U+FF32", "U+FF52">>,
     <<"U+FF33", "U+FF53">>, <<"U+FF34", "U+FF54">>, <<"U+FF35", "U+FF55">>, <<"U+FF36", "U+FF56">>, <<"U+FF37", "U+FF57">>, <<"U+FF38", "U+FF58">>,
     <<"U+FF39", "U+FF59">>, <<"U+FF3A", "U+FF5A">>
    }

\* the same for the letters outside the BMP, each a surrogate pair
AstralLowerPairs ==
    {
     <<<<"U+D801", "U+DC00">>, <<"U+D801", "U+DC28">>>>, <<<<"U+D801", "U+DC01">>, <<"U+D801", "U+DC29">>>>,
     <<<<"U+D801", "U+DC02">>, <<"U+D801", "U+DC2A">>>>, <<<<"U+D801", "U+DC03">>, <<"U+D801", "U+DC2B">>>>,
     <<<<"U+D801", "U+DC04">>, <<"U+D801", "U+DC2C">>>>, <<<<"U+D801", "U+DC05">>, <<"U+D801", "U+DC2D">>>>,
     <<<<"U+D801", "U+DC06">>, <<"U+D801", "U+DC2E">>>>, <<<<"U+D801", "U+DC07">>, <<"U+D801", "U+DC2F">>>>,
     <<<<"U+D801", "U+DC08">>, <<"U+D801", "U+DC30">>>>, <<<<"U+D801", "U+DC09">>, <<"U+D801", "U+DC31">>>>,
     <<<<"U+D801", "U+DC0A">>, <<"U+D801", "U+DC32">>>>, <<<<"U+D801", "U+DC0B">>, <<"U+D801", "U+DC33">>>>,
     <<<<"U+D801", "U+DC0C">>, <<"U+D801", "U+DC34">>>>, <<<<"U+D801", "U+DC0D">>, <<"U+D801", "U+DC35">>>>,
     <<<<"U+D801", "U+DC0E">>, <<"U+D801", "U+DC36">>>>, <<<<"U+D801", "U+DC0F">>, <<"U+D801", "U+DC37">>>>,
     <<<<"U+D801", "U+DC10">>, <<"U+D801", "U+DC38">>>>, <<<<"U+D801", "U+DC11">>, <<"U+D801", "U+DC39">>>>,
     <<<<"U+D801", "U+DC12">>, <<"U+D801", "U+DC3A">>>>, <<<<"U+D801", "U+DC13">>, <<"U+D801", "U+DC3B">>>>,
     <<<<"U+D801", "U+DC14">>, <<"U+D801", "U+DC3C">>>>, <<<<"U+D801", "U+DC15">>, <<"U+D801", "U+DC3D">>>>,
     <<<<"U+D801", "U+DC16">>, <<"U+D801", "U+DC3E">>>>, <<<<"U+D801", "U+DC17">>, <<"U+D801", "U+DC3F">>>>,
     <<<<"U+D801", "U+DC18">>, <<"U+D801", "U+DC40">>>>, <<<<"U+D801", "U+DC19">>, <<"U+D801", "U+DC41">>>>,
     <<<<"U+D801", "U+DC1A">>, <<"U+D801", "U+DC42">>>>, <<<<"U+D801", "U+DC1B">>, <<"U+D801", "U+DC43">>>>,
     <<<<"U+D801", "U+DC1C">>, <<"U+D801", "U+DC44">>>>, <<<<"U+D801", "U+DC1D">>, <<"U+D801", "U+DC45">>>>,
     <<<<"U+D801", "U+DC1E">>, <<"U+D801", "U+DC46">>>>, <<<<"U+D801", "U+DC1F">>, <<"U+D801", "U+DC47">>>>,
     <<<<"U+D801", "U+DC20">>, <<"U+D801", "U+DC48">>>>, <<<<"U+D801", "U+DC21">>, <<"U+D801", "U+DC49">>>>,
     <<<<"U+D801", "U+DC22">>, <<"U+D801", "U+DC4A">>>>, <<<<"U+D801", "U+DC23">>, <<"U+D801", "U+DC4B">>>>,
     <<<<"U+D801", "U+DC24">>, <<"U+D801", "U+DC4C">>>>, <<<<"U+D801", "U+DC25">>, <<"U+D801", "U+DC4D">>>>,
     <<<<"U+D801", "U+DC26">>, <<"U+D801", "U+DC4E">>>>, <<<<"U+D801", "U+DC27">>, <<"U+D801", "U+DC4F">>>>,
     <<<<"U+D801", "U+DCB0">>, <<"U+D801", "U+DCD8">>>>, <<<<"U+D801", "U+DCB1">>, <<"U+D801", "U+DCD9">>>>,
     <<<<"U+D801", "U+DCB2">>, <<"U+D801", "U+DCDA">>>>, <<<<"U+D801", "U+DCB3">>, <<"U+D801", "U+DCDB">>>>,
     <<<<"U+D801", "U+DCB4">>, <<"U+D801", "U+DCDC">>>>, <<<<"U+D801", "U+DCB5">>, <<"U+D801", "U+DCDD">>>>,
     <<<<"U+D801", "U+DCB6">>, <<"U+D801", "U+DCDE">>>>, <<<<"U+D801", "U+DCB7">>, <<"U+D801", "U+DCDF">>>>,
     <<<<"U+D801", "U+DCB8">>, <<"U+D801", "U+DCE0">>>>, <<<<"U+D801", "U+DCB9">>, <<"U+D801", "U+DCE1">>>>,
     <<<<"U+D801", "U+DCBA">>, <<"U+D801", "U+DCE2">>>>, <<<<"U+D801", "U+DCBB">>, <<"U+D801", "U+DCE3">>>>,
     <<<<"U+D801", "U+DCBC">>, <<"U+D801", "U+DCE4">>>>, <<<<"U+D801", "U+DCBD">>, <<"U+D801", "U+DCE5">>>>,
     <<<<"U+D801", "U+DCBE">>, <<"U+D801", "U+DCE6">>>>, <<<<"U+D801", "U+DCBF">>, <<"U+D801", "U+DCE7">>>>,
     <<<<"U+D801", "U+DCC0">>, <<"U+D801", "U+DCE8">>>>, <<<<"U+D801", "U+DCC1">>, <<"U+D801", "U+DCE9">>>>,
     <<<<"U+D801", "U+DCC2">>, <<"U+D801", "U+DCEA">>>>, <<<<"U+D801", "U+DCC3">>, <<"U+D801", "U+DCEB">>>>,
     <<<<"U+D801", "U+DCC4">>, <<"U+D801", "U+DCEC">>>>, <<<<"U+D801", "U+DCC5">>, <<"U+D801", "U+DCED">>>>,
     <<<<"U+D801", "U+DCC6">>, <<"U+D801", "U+DCEE">>>>, <<<<"U+D801", "U+DCC7">>, <<"U+D801", "U+DCEF">>>>,
     <<<<"U+D801", "U+DCC8">>, <<"U+D801", "U+DCF0">>>>, <<<<"U+D801", "U+DCC9">>, <<"U+D801", "U+DCF1">>>>,
     <<<<"U+D801", "U+DCCA">>, <<"U+D801", "U+DCF2">>>>, <<<<"U+D801", "U+DCCB">>, <<"U+D801", "U+DCF3">>>>,
     <<<<"U+D801", "U+DCCC">>, <<"U+D801", "U+DCF4">>>>, <<<<"U+D801", "U+DCCD">>, <<"U+D801", "U+DCF5">>>>,
     <<<<"U+D801", "U+DCCE">>, <<"U+D801", "U+DCF6">>>>, <<<<"U+D801", "U+DCCF">>, <<"U+D801", "U+DCF7">>>>,
     <<<<"U+D801", "U+DCD0">>, <<"U+D801", "U+DCF8">>>>, <<<<"U+D801", "U+DCD1">>, <<"U+D801", "U+DCF9">>>>,
     <<<<"U+D801", "U+DCD2">>, <<"U+D801", "U+DCFA">>>>, <<<<"U+D801", "U+DCD3">>, <<"U+D801", "U+DCFB">>>>,
     <<<<"U+D801", "U+DD70">>, <<"U+D801", "U+DD97">>>>, <<<<"U+D801", "U+DD71">>, <<"U+D801", "U+DD98">>>>,
     <<<<"U+D801", "U+DD72">>, <<"U+D801", "U+DD99">>>>, <<<<"U+D801", "U+DD73">>, <<"U+D801", "U+DD9A">>>>,
     <<<<"U+D801", "U+DD74">>, <<"U+D801", "U+DD9B">>>>, <<<<"U+D801", "U+DD75">>, <<"U+D801", "U+DD9C">>>>,
     <<<<"U+D801", "U+DD76">>, <<"U+D801", "U+DD9D">>>>, <<<<"U+D801", "U+DD77">>, <<"U+D801", "U+DD9E">>>>,
     <<<<"U+D801", "U+DD78">>, <<"U+D801", "U+DD9F">>>>, <<<<"U+D801", "U+DD79">>, <<"U+D801", "U+DDA0">>>>,
     <<<<"U+D801", "U+DD7A">>, <<"U+D801", "U+DDA1">>>>, <<<<"U+D801", "U+DD7C">>, <<"U+D801", "U+DDA3">>>>,
     <<<<"U+D801", "U+DD7D">>, <<"U+D801", "U+DDA4">>>>, <<<<"U+D801", "U+DD7E">>, <<"U+D801", "U+DDA5">>>>,
     <<<<"U+D801", "U+DD7F">>, <<"U+D801", "U+DDA6">>>>, <<<<"U+D801", "U+DD80">>, <<"U+D801", "U+DDA7">>>>,
     <<<<"U+D801", "U+DD81">>, <<"U+D801", "U+DDA8">>>>, <<<<"U+D801", "U+DD82">>, <<"U+D801", "U+DDA9">>>>,
     <<<<"U+D801", "U+DD83">>, <<"U+D801", "U+DDAA">>>>, <<<<"U+D801", "U+DD84">>, <<"U+D801", "U+DDAB">>>>,
     <<<<"U+D801", "U+DD85">>, <<"U+D801", "U+DDAC">>>>, <<<<"U+D801", "U+DD86">>, <<"U+D801", "U+DDAD">>>>,
     <<<<"U+D801", "U+DD87">>, <<"U+D801", "U+DDAE">>>>, <<<<"U+D801", "U+DD88">>, <<"U+D801", "U+DDAF">>>>,
     <<<<"U+D801", "U+DD89">>, <<"U+D801", "U+DDB0">>>>, <<<<"U+D801", "U+DD8A">>, <<"U+D801", "U+DDB1">>>>,
     <<<<"U+D801", "U+DD8C">>, <<"U+D801", "U+DDB3">>>>, <<<<"U+D801", "U+DD8D">>, <<"U+D801", "U+DDB4">>>>,
     <<<<"U+D801", "U+DD8E">>, <<"U+D801", "U+DDB5">>>>, <<<<"U+D801", "U+DD8F">>, <<"U+D801", "U+DDB6">>>>,
     <<<<"U+D801", "U+DD90">>, <<"U+D801", "U+DDB7">>>>, <<<<"U+D801", "U+DD91">>, <<"U+D801", "U+DDB8">>>>,
     <<<<"U+D801", "U+DD92">>, <<"U+D801", "U+DDB9">>>>, <<<<"U+D801", "U+DD94">>, <<"U+D801", "U+DDBB">>>>,
     <<<<"U+D801", "U+DD95">>, <<"U+D801", "U+DDBC">>>>, <<<<"U+D803", "U+DC80">>, <<"U+D803", "U+DCC0">>>>,
     <<<<"U+D803", "U+DC81">>, <<"U+D803", "U+DCC1">>>>, <<<<"U+D803", "U+DC82">>, <<"U+D803", "U+DCC2">>>>,
     <<<<"U+D803", "U+DC83">>, <<"U+D803", "U+DCC3">>>>, <<<<"U+D803", "U+DC84">>, <<"U+D803", "U+DCC4">>>>,
     <<<<"U+D803", "U+DC85">>, <<"U+D803", "U+DCC5">>>>, <<<<"U+D803", "U+DC86">>, <<"U+D803", "U+DCC6">>>>,
     <<<<"U+D803", "U+DC87">>, <<"U+D803", "U+DCC7">>>>, <<<<"U+D803", "U+DC88">>, <<"U+D803", "U+DCC8">>>>,
     <<<<"U+D803", "U+DC89">>, <<"U+D803", "U+DCC9">>>>, <<<<"U+D803", "U+DC8A">>, <<"U+D803", "U+DCCA">>>>,
     <<<<"U+D803", "U+DC8B">>, <<"U+D803", "U+DCCB">>>>, <<<<"U+D803", "U+DC8C">>, <<"U+D803", "U+DCCC">>>>,
     <<<<"U+D803", "U+DC8D">>, <<"U+D803", "U+DCCD">>>>, <<<<"U+D803", "U+DC8E">>, <<"U+D803", "U+DCCE">>>>,
     <<<<"U+D803", "U+DC8F">>, <<"U+D803", "U+DCCF">>>>, <<<<"U+D803", "U+DC90">>, <<"U+D803", "U+DCD0">>>>,
     <<<<"U+D803", "U+DC91">>, <<"U+D803", "U+DCD1">>>>, <<<<"U+D803", "U+DC92">>, <<"U+D803", "U+DCD2">>>>,
     <<<<"U+D803", "U+DC93">>, <<"U+D803", "U+DCD3">>>>, <<<<"U+D803", "U+DC94">>, <<"U+D803", "U+DCD4">>>>,
     <<<<"U+D803", "U+DC95">>, <<"U+D803", "U+DCD5">>>>, <<<<"U+D803", "U+DC96">>, <<"U+D803", "U+DCD6">>>>,
     <<<<"U+D803", "U+DC97">>, <<"U+D803", "U+DCD7">>>>, <<<<"U+D803", "U+DC98">>, <<"U+D803", "U+DCD8">>>>,
     <<<<"U+D803", "U+DC99">>, <<"U+D803", "U+DCD9">>>>, <<<<"U+D803", "U+DC9A">>, <<"U+D803", "U+DCDA">>>>,
     <<<<"U+D803", "U+DC9B">>, <<"U+D803", "U+DCDB">>>>, <<<<"U+D803", "U+DC9C">>, <<"U+D803", "U+DCDC">>>>,
     <<<<"U+D803", "U+DC9D">>, <<"U+D803", "U+DCDD">>>>, <<<<"U+D803", "U+DC9E">>, <<"U+D803", "U+DCDE">>>>,
     <<<<"U+D803", "U+DC9F">>, <<"U+D803", "U+DCDF">>>>, <<<<"U+D803", "U+DCA0">>, <<"U+D803", "U+DCE0">>>>,
     <<<<"U+D803", "U+DCA1">>, <<"U+D803", "U+DCE1">>>>, <<<<"U+D803", "U+DCA2">>, <<"U+D803", "U+DCE2">>>>,
     <<<<"U+D803", "U+DCA3">>, <<"U+D803", "U+DCE3">>>>, <<<<"U+D803", "U+DCA4">>, <<"U+D803", "U+DCE4">>>>,
     <<<<"U+D803", "U+DCA5">>, <<"U+D803", "U+DCE5">>>>, <<<<"U+D803", "U+DCA6">>, <<"U+D803", "U+DCE6">>>>,
     <<<<"U+D803", "U+DCA7">>, <<"U+D803", "U+DCE7">>>>, <<<<"U+D803", "U+DCA8">>, <<"U+D803", "U+DCE8">>>>,
     <<<<"U+D803", "U+DCA9">>, <<"U+D803", "U+DCE9">>>>, <<<<"U+D803", "U+DCAA">>, <<"U+D803", "U+DCEA">>>>,
     <<<<"U+D803", "U+DCAB">>, <<"U+D803", "U+DCEB">>>>, <<<<"U+D803", "U+DCAC">>, <<"U+D803", "U+DCEC">>>>,
     <<<<"U+D803", "U+DCAD">>, <<"U+D803", "U+DCED">>>>, <<<<"U+D803", "U+DCAE">>, <<"U+D803", "U+DCEE">>>>,
     <<<<"U+D803", "U+DCAF">>, <<"U+D803", "U+DCEF">>>>, <<<<"U+D803", "U+DCB0">>, <<"U+D803", "U+DCF0">>>>,
     <<<<"U+D803", "U+DCB1">>, <<"U+D803", "U+DCF1">>>>, <<<<"U+D803", "U+DCB2">>, <<"U+D803", "U+DCF2">>>>,
     <<<<"U+D803", "U+DD50">>, <<"U+D803", "U+DD70">>>>, <<<<"U+D803", "U+DD51">>, <<"U+D803", "U+DD71">>>>,
     <<<<"U+D803", "U+DD52">>, <<"U+D803", "U+DD72">>>>, <<<<"U+D803", "U+DD53">>, <<"U+D803", "U+DD73">>>>,
     <<<<"U+D803", "U+DD54">>, <<"U+D803", "U+DD74">>>>, <<<<"U+D803", "U+DD55">>, <<"U+D803", "U+DD75">>>>,
     <<<<"U+D803", "U+DD56">>, <<"U+D803", "U+DD76">>>>, <<<<"U+D803", "U+DD57">>, <<"U+D803", "U+DD77">>>>,
     <<<<"U+D803", "U+DD58">>, <<"U+D803", "U+DD78">>>>, <<<<"U+D803", "U+DD59">>, <<"U+D803", "U+DD79">>>>,
     <<<<"U+D803", "U+DD5A">>, <<"U+D803", "U+DD7A">>>>, <<<<"U+D803", "U+DD5B">>, <<"U+D803", "U+DD7B">>>>,
     <<<<"U+D803", "U+DD5C">>, <<"U+D803", "U+DD7C">>>>, <<<<"U+D803", "U+DD5D">>, <<"U+D803", "U+DD7D">>>>,
     <<<<"U+D803", "U+DD5E">>, <<"U+D803", "U+DD7E">>>>, <<<<"U+D803", "U+DD5F">>, <<"U+D803", "U+DD7F">>>>,
     <<<<"U+D803", "U+DD60">>, <<"U+D803", "U+DD80">>>>, <<<<"U+D803", "U+DD61">>, <<"U+D803", "U+DD81">>>>,
     <<<<"U+D803", "U+DD62">>, <<"U+D803", "U+DD82">>>>, <<<<"U+D803", "U+DD63">>, <<"U+D803", "U+DD83">>>>,
     <<<<"U+D803", "U+DD64">>, <<"U+D803", "U+DD84">>>>, <<<<"U+D803", "U+DD65">>, <<"U+D803", "U+DD85">>>>,
     <<<<"U+D806", "U+DCA0">>, <<"U+D806", "U+DCC0">>>>, <<<<"U+D806", "U+DCA1">>, <<"U+D806", "U+DCC1">>>>,
     <<<<"U+D806", "U+DCA2">>, <<"U+D806", "U+DCC2">>>>, <<<<"U+D806", "U+DCA3">>, <<"U+D806", "U+DCC3">>>>,
     <<<<"U+D806", "U+DCA4">>, <<"U+D806", "U+DCC4">>>>, <<<<"U+D806", "U+DCA5">>, <<"U+D806", "U+DCC5">>>>,
     <<<<"U+D806", "U+DCA6">>, <<"U+D806", "U+DCC6">>>>, <<<<"U+D806", "U+DCA7">>, <<"U+D806", "U+DCC7">>>>,
     <<<<"U+D806", "U+DCA8">>, <<"U+D806", "U+DCC8">>>>, <<<<"U+D806", "U+DCA9">>, <<"U+D806", "U+DCC9">>>>,
     <<<<"U+D806", "U+DCAA">>, <<"U+D806", "U+DCCA">>>>, <<<<"U+D806", "U+DCAB">>, <<"U+D806", "U+DCCB">>>>,
     <<<<"U+D806", "U+DCAC">>, <<"U+D806", "U+DCCC">>>>, <<<<"U+D806", "U+DCAD">>, <<"U+D806", "U+DCCD">>>>,
     <<<<"U+D806", "U+DCAE">>, <<"U+D806", "U+DCCE">>>>, <<<<"U+D806", "U+DCAF">>, <<"U+D806", "U+DCCF">>>>,
     <<<<"U+D806", "U+DCB0">>, <<"U+D806", "U+DCD0">>>>, <<<<"U+D806", "U+DCB1">>, <<"U+D806", "U+DCD1">>>>,
     <<<<"U+D806", "U+DCB2">>, <<"U+D806", "U+DCD2">>>>, <<<<"U+D806", "U+DCB3">>, <<"U+D806", "U+DCD3">>>>,
     <<<<"U+D806", "U+DCB4">>, <<"U+D806", "U+DCD4">>>>, <<<<"U+D806", "U+DCB5">>, <<"U+D806", "U+DCD5">>>>,
     <<<<"U+D806", "U+DCB6">>, <<"U+D806", "U+DCD6">>>>, <<<<"U+D806", "U+DCB7">>, <<"U+D806", "U+DCD7">>>>,
     <<<<"U+D806", "U+DCB8">>, <<"U+D806", "U+DCD8">>>>, <<<<"U+D806", "U+DCB9">>, <<"U+D806", "U+DCD9">>>>,
     <<<<"U+D806", "U+DCBA">>, <<"U+D806", "U+DCDA">>>>, <<<<"U+D806", "U+DCBB">>, <<"U+D806", "U+DCDB">>>>,
     <<<<"U+D806", "U+DCBC">>, <<"U+D806", "U+DCDC">>>>, <<<<"U+D806", "U+DCBD">>, <<"U+D806", "U+DCDD">>>>,
     <<<<"U+D806", "U+DCBE">>, <<"U+D806", "U+DCDE">>>>, <<<<"U+D806", "U+DCBF">>, <<"U+D806", "U+DCDF">>>>,
     <<<<"U+D81B", "U+DE40">>, <<"U+D81B", "U+DE60">>>>, <<<<"U+D81B", "U+DE41">>, <<"U+D81B", "U+DE61">>>>,
     <<<<"U+D81B", "U+DE42">>, <<"U+D81B", "U+DE62">>>>, <<<<"U+D81B", "U+DE43">>, <<"U+D81B", "U+DE63">>>>,
     <<<<"U+D81B", "U+DE44">>, <<"U+D81B", "U+DE64">>>>, <<<<"U+D81B", "U+DE45">>, <<"U+D81B", "U+DE65">>>>,
     <<<<"U+D81B", "U+DE46">>, <<"U+D81B", "U+DE66">>>>, <<<<"U+D81B", "U+DE47">>, <<"U+D81B", "U+DE67">>>>,
     <<<<"U+D81B", "U+DE48">>, <<"U+D81B", "U+DE68">>>>, <<<<"U+D81B", "U+DE49">>, <<"U+D81B", "U+DE69">>>>,
     <<<<"U+D81B", "U+DE4A">>, <<"U+D81B", "U+DE6A">>>>, <<<<"U+D81B", "U+DE4B">>, <<"U+D81B", "U+DE6B">>>>,
     <<<<"U+D81B", "U+DE4C">>, <<"U+D81B", "U+DE6C">>>>, <<<<"U+D81B", "U+DE4D">>, <<"U+D81B", "U+DE6D">>>>,
     <<<<"U+D81B", "U+DE4E">>, <<"U+D81B", "U+DE6E">>>>, <<<<"U+D81B", "U+DE4F">>, <<"U+D81B", "U+DE6F">>>>,
     <<<<"U+D81B", "U+DE50">>, <<"U+D81B", "U+DE70">>>>, <<<<"U+D81B", "U+DE51">>, <<"U+D81B", "U+DE71">>>>,
     <<<<"U+D81B", "U+DE52">>, <<"U+D81B", "U+DE72">>>>, <<<<"U+D81B", "U+DE53">>, <<"U+D81B", "U+DE73">>>>,
     <<<<"U+D81B", "U+DE54">>, <<"U+D81B", "U+DE74">>>>, <<<<"U+D81B", "U+DE55">>, <<"U+D81B", "U+DE75">>>>,
     <<<<"U+D81B", "U+DE56">>, <<"U+D81B", "U+DE76">>>>, <<<<"U+D81B", "U+DE57">>, <<"U+D81B", "U+DE77">>>>,
     <<<<"U+D81B", "U+DE58">>, <<"U+D81B", "U+DE78">>>>, <<<<"U+D81B", "U+DE59">>, <<"U+D81B", "U+DE79">>>>,
     <<<<"U+D81B", "U+DE5A">>, <<"U+D81B", "U+DE7A">>>>, <<<<"U+D81B", "U+DE5B">>, <<"U+D81B", "U+DE7B">>>>,
     <<<<"U+D81B", "U+DE5C">>, <<"U+D81B", "U+DE7C">>>>, <<<<"U+D81B", "U+DE5D">>, <<"U+D81B", "U+DE7D">>>>,
     <<<<"U+D81B", "U+DE5E">>, <<"U+D81B", "U+DE7E">>>>, <<<<"U+D81B", "U+DE5F">>, <<"U+D81B", "U+DE7F">>>>,
     <<<<"U+D81B", "U+DEA0">>, <<"U+D81B", "U+DEBB">>>>, <<<<"U+D81B", "U+DEA1">>, <<"U+D81B", "U+DEBC">>>>,
     <<<<"U+D81B", "U+DEA2">>, <<"U+D81B", "U+DEBD">>>>, <<<<"U+D81B", "U+DEA3">>, <<"U+D81B", "U+DEBE">>>>,
     <<<<"U+D81B", "U+DEA4">>, <<"U+D81B", "U+DEBF">>>>, <<<<"U+D81B", "U+DEA5">>, <<"U+D81B", "U+DEC0">>>>,
     <<<<"U+D81B", "U+DEA6">>, <<"U+D81B", "U+DEC1">>>>, <<<<"U+D81B", "U+DEA7">>, <<"U+D81B", "U+DEC2">>>>,
     <<<<"U+D81B", "U+DEA8">>, <<"U+D81B", "U+DEC3">>>>, <<<<"U+D81B", "U+DEA9">>, <<"U+D81B", "U+DEC4">>>>,
     <<<<"U+D81B", "U+DEAA">>, <<"U+D81B", "U+DEC5">>>>, <<<<"U+D81B", "U+DEAB">>, <<"U+D81B", "U+DEC6">>>>,
     <<<<"U+D81B", "U+DEAC">>, <<"U+D81B", "U+DEC7">>>>, <<<<"U+D81B", "U+DEAD">>, <<"U+D81B", "U+DEC8">>>>,
     <<<<"U+D81B", "U+DEAE">>, <<"U+D81B", "U+DEC9">>>>, <<<<"U+D81B", "U+DEAF">>, <<"U+D81B", "U+DECA">>>>,
     <<<<"U+D81B", "U+DEB0">>, <<"U+D81B", "U+DECB">>>>, <<<<"U+D81B", "U+DEB1">>, <<"U+D81B", "U+DECC">>>>,
     <<<<"U+D81B", "U+DEB2">>, <<"U+D81B", "U+DECD">>>>, <<<<"U+D81B", "U+DEB3">>, <<"U+D81B", "U+DECE">>>>,
     <<<<"U+D81B", "U+DEB4">>, <<"U+D81B", "U+DECF">>>>, <<<<"U+D81B", "U+DEB5">>, <<"U+D81B", "U+DED0">>>>,
     <<<<"U+D81B", "U+DEB6">>, <<"U+D81B", "U+DED1">>>>, <<<<"U+D81B", "U+DEB7">>, <<"U+D81B", "U+DED2">>>>,
     <<<<"U+D81B", "U+DEB8">>, <<"U+D81B", "U+DED3">>>>, <<<<"U+D83A", "U+DD00">>, <<"U+D83A", "U+DD22">>>>,
     <<<<"U+D83A", "U+DD01">>, <<"U+D83A", "U+DD23">>>>, <<<<"U+D83A", "U+DD02">>, <<"U+D83A", "U+DD24">>>>,
     <<<<"U+D83A", "U+DD03">>, <<"U+D83A", "U+DD25">>>>, <<<<"U+D83A", "U+DD04">>, <<"U+D83A", "U+DD26">>>>,
     <<<<"U+D83A", "U+DD05">>, <<"U+D83A", "U+DD27">>>>, <<<<"U+D83A", "U+DD06">>, <<"U+D83A", "U+DD28">>>>,
     <<<<"U+D83A", "U+DD07">>, <<"U+D83A", "U+DD29">>>>, <<<<"U+D83A", "U+DD08">>, <<"U+D83A", "U+DD2A">>>>,
     <<<<"U+D83A", "U+DD09">>, <<"U+D83A", "U+DD2B">>>>, <<<<"U+D83A", "U+DD0A">>, <<"U+D83A", "U+DD2C">>>>,
     <<<<"U+D83A", "U+DD0B">>, <<"U+D83A", "U+DD2D">>>>, <<<<"U+D83A", "U+DD0C">>, <<"U+D83A", "U+DD2E">>>>,
     <<<<"U+D83A", "U+DD0D">>, <<"U+D83A", "U+DD2F">>>>, <<<<"U+D83A", "U+DD0E">>, <<"U+D83A", "U+DD30">>>>,
     <<<<"U+D83A", "U+DD0F">>, <<"U+D83A", "U+DD31">>>>, <<<<"U+D83A", "U+DD10">>, <<"U+D83A", "U+DD32">>>>,
     <<<<"U+D83A", "U+DD11">>, <<"U+D83A", "U+DD33">>>>, <<<<"U+D83A", "U+DD12">>, <<"U+D83A", "U+DD34">>>>,
     <<<<"U+D83A", "U+DD13">>, <<"U+D83A", "U+DD35">>>>, <<<<"U+D83A", "U+DD14">>, <<"U+D83A", "U+DD36">>>>,
     <<<<"U+D83A", "U+DD15">>, <<"U+D83A", "U+DD37">>>>, <<<<"U+D83A", "U+DD16">>, <<"U+D83A", "U+DD38">>>>,
     <<<<"U+D83A", "U+DD17">>, <<"U+D83A", "U+DD39">>>>, <<<<"U+D83A", "U+DD18">>, <<"U+D83A", "U+DD3A">>>>,
     <<<<"U+D83A", "U+DD19">>, <<"U+D83A", "U+DD3B">>>>, <<<<"U+D83A", "U+DD1A">>, <<"U+D83A", "U+DD3C">>>>,
     <<<<"U+D83A", "U+DD1B">>, <<"U+D83A", "U+DD3D">>>>, <<<<"U+D83A", "U+DD1C">>, <<"U+D83A", "U+DD3E">>>>,
     <<<<"U+D83A", "U+DD1D">>, <<"U+D83A", "U+DD3F">>>>, <<<<"U+D83A", "U+DD1E">>, <<"U+D83A", "U+DD40">>>>,
     <<<<"U+D83A", "U+DD1F">>, <<"U+D83A", "U+DD41">>>>, <<<<"U+D83A", "U+DD20">>, <<"U+D83A", "U+DD42">>>>,
     <<<<"U+D83A", "U+DD21">>, <<"U+D83A", "U+DD43">>>>
    }

\* the code units with the Unicode property Cased
Cased ==
    {
     "A", "B", "C", "D", "E", "F", "G", "H", "I", "J", "K", "L",
     "M", "N", "O", "P", "Q", "R", "S", "T", "U", "V", "W", "X",
     "Y", "Z", "a", "b", "c", "d", "e", "f", "g", "h", "i", "j",
     "k", "l", "m", "n", "o", "p", "q", "r", "s", "t", "u", "v",
     "w", "x", "y", "z", "ª", "µ", "º", "À", "Á", "Â", "Ã", "Ä",
     "Å", "Æ", "Ç", "È", "É", "Ê", "Ë", "Ì", "Í", "Î", "Ï", "Ð",
     "Ñ", "Ò", "Ó", "Ô", "Õ", "Ö", "Ø", "Ù", "Ú", "Û", "Ü", "Ý",
     "Þ", "ß", "à", "á", "â", "ã", "ä", "å", "æ", "ç", "è", "é",
     "ê", "ë", "ì", "í", "î", "ï", "ð", "ñ", "ò", "ó", "ô", "õ",
     "ö", "ø", "ù", "ú", "û", "ü", "ý", "þ", "ÿ", "U+0100", "U+0101", "U+0102",
     "U+0103", "U+0104", "U+0105", "U+0106", "U+0107", "U+0108", "U+0109", "U+010A", "U+010B", "U+010C", "U+010D", "U+010E",
     "U+010F", "U+0110", "U+0111", "U+0112", "U+0113", "U+0114", "U+0115", "U+0116", "U+0117", "U+0118", "U+0119", "U+011A",
     "U+011B", "U+011C", "U+011D", "U+011E", "U+011F", "U+0120", "U+0121", "U+0122", "U+0123", "U+0124", "U+0125", "U+0126",
     "U+0127", "U+0128", "U+0129", "U+012A", "U+012B", "U+012C", "U+012D", "U+012E", "U+012F", "U+0130", "U+0131", "U+0132",
     "U+0133", "U+0134", "U+0135", "U+0136", "U+0137", "U+0138", "U+0139", "U+013A", "U+013B", "U+013C", "U+013D", "U+013E",
     "U+013F", "U+0140", "U+0141", "U+0142", "U+0143", "U+0144", "U+0145", "U+0146", "U+0147", "U+0148", "U+0149", "U+014A",
     "U+014B", "U+014C", "U+014D", "U+014E", "U+014F", "U+0150", "U+0151", "U+0152", "U+0153", "U+0154", "U+0155", "U+0156",
     "U+0157", "U+0158", "U+0159", "U+015A", "U+015B", "U+015C", "U+015D", "U+015E", "U+015F", "U+0160", "U+0161", "U+0162",
     "U+0163", "U+0164", "U+0165", "U+0166", "U+0167", "U+0168", "U+0169", "U+016A", "U+016B", "U+016C", "U+016D", "U+016E",
     "U+016F", "U+0170", "U+0171", "U+0172", "U+0173", "U+0174", "U+0175", "U+0176", "U+0177", "U+0178", "U+0179", "U+017A",
     "U+017B", "U+017C", "U+017D", "U+017E", "U+017F", "ƀ", "Ɓ", "Ƃ", "ƃ", "Ƅ", "ƅ", "Ɔ",
     "Ƈ", "ƈ", "Ɖ", "Ɗ", "Ƌ", "ƌ", "ƍ", "Ǝ", "Ə", "Ɛ", "Ƒ", "ƒ",
     "Ɠ", "Ɣ", "ƕ", "Ɩ", "Ɨ", "Ƙ", "ƙ", "ƚ", "ƛ", "Ɯ", "Ɲ", "ƞ",
     "Ɵ", "Ơ", "ơ", "Ƣ", "ƣ", "Ƥ", "ƥ", "Ʀ", "Ƨ", "ƨ", "Ʃ", "ƪ",
     "ƫ", "Ƭ", "ƭ", "Ʈ", "Ư", "ư", "Ʊ", "Ʋ", "Ƴ", "ƴ", "Ƶ", "ƶ",
     "Ʒ", "Ƹ", "ƹ", "ƺ", "Ƽ", "ƽ", "ƾ", "ƿ", "Ǆ", "ǅ", "ǆ", "Ǉ",
     "ǈ", "ǉ", "Ǌ", "ǋ", "ǌ", "Ǎ", "ǎ", "Ǐ", "ǐ", "Ǒ", "ǒ", "Ǔ",
     "ǔ", "Ǖ", "ǖ", "Ǘ", "ǘ", "Ǚ", "ǚ", "Ǜ", "ǜ", "ǝ", "Ǟ", "ǟ",
     "Ǡ", "ǡ", "Ǣ", "ǣ", "Ǥ", "ǥ", "Ǧ", "ǧ", "Ǩ", "ǩ", "Ǫ", "ǫ",
     "Ǭ", "ǭ", "Ǯ", "ǯ", "ǰ", "Ǳ", "ǲ", "ǳ", "Ǵ", "ǵ", "Ƕ", "Ƿ",
     "Ǹ", "ǹ", "Ǻ", "ǻ", "Ǽ", "ǽ", "Ǿ", "ǿ", "U+0200", "U+0201", "U+0202", "U+0203",
     "U+0204", "U+0205", "U+0206", "U+0207", "U+0208", "U+0209", "U+020A", "U+020B", "U+020C", "U+020D", "U+020E", "U+020F",
     "U+0210", "U+0211", "U+0212", "U+0213", "U+0214", "U+0215", "U+0216", "U+0217", "U+0218", "U+0219", "U+021A", "U+021B",
     "U+021C", "U+021D", "U+021E", "U+021F", "U+0220", "U+0221", "U+0222", "U+0223", "U+0224", "U+0225", "U+0226", "U+0227",
     "U+0228", "U+0229", "U+022A", "U+022B", "U+022C", "U+022D", "U+022E", "U+022F", "U+0230", "U+0231", "U+0232", "U+0233",
     "U+0234", "U+0235", "U+0236", "U+0237", "U+0238", "U+0239", "U+023A", "U+023B", "U+023C", "U+023D", "U+023E", "U+023F",
     "U+0240", "U+0241", "U+0242", "U+0243", "U+0244", "U+0245", "U+0246", "U+0247", "U+0248", "U+0249", "U+024A", "U+024B",
     "U+024C", "U+024D", "U+024E", "U+024F", "U+0250", "U+0251", "U+0252", "U+0253", "U+0254", "U+0255", "U+0256", "U+0257",
     "U+0258", "U+0259", "U+025A", "U+025B", "U+025C", "U+025D", "U+025E", "U+025F", "U+0260", "U+0261", "U+0262", "U+0263",
     "U+0264", "U+0265", "U+0266", "U+0267", "U+0268", "U+0269", "U+026A", "U+026B", "U+026C", "U+026D", "U+026E", "U+026F",
     "U+0270", "U+0271", "U+0272", "U+0273", "U+0274", "U+0275", "U+0276", "U+0277", "U+0278", "U+0279", "U+027A", "U+027B",
     "U+027C", "U+027D", "U+027E", "U+027F", "ʀ", "ʁ", "ʂ", "ʃ", "ʄ", "ʅ", "ʆ", "ʇ",
     "ʈ", "ʉ", "ʊ", "ʋ", "ʌ", "ʍ", "ʎ", "ʏ", "ʐ", "ʑ", "ʒ", "ʓ",
     "ʖ", "ʗ", "ʘ", "ʙ", "ʚ", "ʛ", "ʜ", "ʝ", "ʞ", "ʟ", "ʠ", "ʡ",
     "ʢ", "ʣ", "ʤ", "ʥ", "ʦ", "ʧ", "ʨ", "ʩ", "ʪ", "ʫ", "ʬ", "ʭ",
     "ʮ", "ʯ", "ʰ", "ʱ", "ʲ", "ʳ", "ʴ", "ʵ", "ʶ", "ʷ", "ʸ", "ˀ",
     "ˁ", "ˠ", "ˡ", "ˢ", "ˣ", "ˤ", "U+0345", "U+0370", "U+0371", "U+0372", "U+0373", "U+0376",
     "U+0377", "U+037A", "U+037B", "U+037C", "U+037D", "U+037F", "Ά", "Έ", "Ή", "Ί", "Ό", "Ύ",
     "Ώ", "ΐ", "Α", "Β", "Γ", "Δ", "Ε", "Ζ", "Η", "Θ", "Ι", "Κ",
     "Λ", "Μ", "Ν", "Ξ", "Ο", "Π", "Ρ", "Σ", "Τ", "Υ", "Φ", "Χ",
     "Ψ", "Ω", "Ϊ", "Ϋ", "ά", "έ", "ή", "ί", "ΰ", "α", "β", "γ",
     "δ", "ε", "ζ", "η", "θ", "ι", "κ", "λ", "μ", "ν", "ξ", "ο",
     "π", "ρ", "ς", "σ", "τ", "υ", "φ", "χ", "ψ", "ω", "ϊ", "ϋ",
     "ό", "ύ", "ώ", "Ϗ", "ϐ", "ϑ", "ϒ", "ϓ", "ϔ", "ϕ", "ϖ", "ϗ",
     "Ϙ", "ϙ", "Ϛ", "ϛ", "Ϝ", "ϝ", "Ϟ", "ϟ", "Ϡ", "ϡ", "Ϣ", "ϣ",
     "Ϥ", "ϥ", "Ϧ", "ϧ", "Ϩ", "ϩ", "Ϫ", "ϫ", "Ϭ", "ϭ", "Ϯ", "ϯ",
     "ϰ", "ϱ", "ϲ", "ϳ", "ϴ", "ϵ", "Ϸ", "ϸ", "Ϲ", "Ϻ", "ϻ", "ϼ",
     "Ͻ", "Ͼ", "Ͽ", "U+0400", "U+0401", "U+0402", "U+0403", "U+0404", "U+0405", "U+0406", "U+0407", "U+0408",
     "U+0409", "U+040A", "U+040B", "U+040C", "U+040D", "U+040E", "U+040F", "U+0410", "U+0411", "U+0412", "U+0413", "U+0414",
     "U+0415", "U+0416", "U+0417", "U+0418", "U+0419", "U+041A", "U+041B", "U+041C", "U+041D", "U+041E", "U+041F", "U+0420",
     "U+0421", "U+0422", "U+0423", "U+0424", "U+0425", "U+0426", "U+0427", "U+0428", "U+0429", "U+042A", "U+042B", "U+042C",
     "U+042D", "U+042E", "U+042F", "U+0430", "U+0431", "U+0432", "U+0433", "U+0434", "U+0435", "U+0436", "U+0437", "U+0438",
     "U+0439", "U+043A", "U+043B", "U+043C", "U+043D", "U+043E", "U+043F", "U+0440", "U+0441", "U+0442", "U+0443", "U+0444",
     "U+0445", "U+0446", "U+0447", "U+0448", "U+0449", "U+044A", "U+044B", "U+044C", "U+044D", "U+044E", "U+044F", "U+0450",
     "U+0451", "U+0452", "U+0453", "U+0454", "U+0455", "U+0456", "U+0457", "U+0458", "U+0459", "U+045A", "U+045B", "U+045C",
     "U+045D", "U+045E", "U+045F", "U+0460", "U+0461", "U+0462", "U+0463", "U+0464", "U+0465", "U+0466", "U+0467", "U+0468",
     "U+0469", "U+046A", "U+046B", "U+046C", "U+046D", "U+046E", "U+046F", "U+0470", "U+0471", "U+0472", "U+0473", "U+0474",
     "U+0475", "U+0476", "U+0477", "U+0478", "U+0479", "U+047A", "U+047B", "U+047C", "U+047D", "U+047E", "U+047F", "Ҁ",
     "ҁ", "Ҋ", "ҋ", "Ҍ", "ҍ", "Ҏ", "ҏ", "Ґ", "ґ", "Ғ", "ғ", "Ҕ",
     "ҕ", "Җ", "җ", "Ҙ", "ҙ", "Қ", "қ", "Ҝ", "ҝ", "Ҟ", "ҟ", "Ҡ",
     "ҡ", "Ң", "ң", "Ҥ", "ҥ", "Ҧ", "ҧ", "Ҩ", "ҩ", "Ҫ", "ҫ", "Ҭ",
     "ҭ", "Ү", "ү", "Ұ", "ұ", "Ҳ", "ҳ", "Ҵ", "ҵ", "Ҷ", "ҷ", "Ҹ",
     "ҹ", "Һ", "һ", "Ҽ", "ҽ", "Ҿ", "ҿ", "Ӏ", "Ӂ", "ӂ", "Ӄ", "ӄ",
     "Ӆ", "ӆ", "Ӈ", "ӈ", "Ӊ", "ӊ", "Ӌ", "ӌ", "Ӎ", "ӎ", "ӏ", "Ӑ",
     "ӑ", "Ӓ", "ӓ", "Ӕ", "ӕ", "Ӗ", "ӗ", "Ә", "ә", "Ӛ", "ӛ", "Ӝ",
     "ӝ", "Ӟ", "ӟ", "Ӡ", "ӡ", "Ӣ", "ӣ", "Ӥ", "ӥ", "Ӧ", "ӧ", "Ө",
     "ө", "Ӫ", "ӫ", "Ӭ", "ӭ", "Ӯ", "ӯ", "Ӱ", "ӱ", "Ӳ", "ӳ", "Ӵ",
     "ӵ", "Ӷ", "ӷ", "Ӹ", "ӹ", "Ӻ", "ӻ", "Ӽ", "ӽ", "Ӿ", "ӿ", "U+0500",
     "U+0501", "U+0502", "U+0503", "U+0504", "U+0505", "U+0506", "U+0507", "U+0508", "U+0509", "U+050A", "U+050B", "U+050C",
     "U+050D", "U+050E", "U+050F", "U+0510", "U+0511", "U+0512", "U+0513", "U+0514", "U+0515", "U+0516", "U+0517", "U+0518",
     "U+0519", "U+051A", "U+051B", "U+051C", "U+051D", "U+051E", "U+051F", "U+0520", "U+0521", "U+0522", "U+0523", "U+0524",
     "U+0525", "U+0526", "U+0527", "U+0528", "U+0529", "U+052A", "U+052B", "U+052C", "U+052D", "U+052E", "U+052F", "U+0531",
     "U+0532", "U+0533", "U+0534", "U+0535", "U+0536", "U+0537", "U+0538", "U+0539", "U+053A", "U+053B", "U+053C", "U+053D",
     "U+053E", "U+053F", "U+0540", "U+0541", "U+0542", "U+0543", "U+0544", "U+0545", "U+0546", "U+0547", "U+0548", "U+0549",
     "U+054A", "U+054B", "U+054C", "U+054D", "U+054E", "U+054F", "U+0550", "U+0551", "U+0552", "U+0553", "U+0554", "U+0555",
     "U+0556", "U+0560", "U+0561", "U+0562", "U+0563", "U+0564", "U+0565", "U+0566", "U+0567", "U+0568", "U+0569", "U+056A",
     "U+056B", "U+056C", "U+056D", "U+056E", "U+056F", "U+0570", "U+0571", "U+0572", "U+0573", "U+0574", "U+0575", "U+0576",
     "U+0577", "U+0578", "U+0579", "U+057A", "U+057B", "U+057C", "U+057D", "U+057E", "U+057F", "ր", "ց", "ւ",
     "փ", "ք", "օ", "ֆ", "և", "ֈ", "Ⴀ", "Ⴁ", "Ⴂ", "Ⴃ", "Ⴄ", "Ⴅ",
     "Ⴆ", "Ⴇ", "Ⴈ", "Ⴉ", "Ⴊ", "Ⴋ", "Ⴌ", "Ⴍ", "Ⴎ", "Ⴏ", "Ⴐ", "Ⴑ",
     "Ⴒ", "Ⴓ", "Ⴔ", "Ⴕ", "Ⴖ", "Ⴗ", "Ⴘ", "Ⴙ", "Ⴚ", "Ⴛ", "Ⴜ", "Ⴝ",
     "Ⴞ", "Ⴟ", "Ⴠ", "Ⴡ", "Ⴢ", "Ⴣ", "Ⴤ", "Ⴥ", "Ⴧ", "Ⴭ", "ა", "ბ",
     "გ", "დ", "ე", "ვ", "ზ", "თ", "ი", "კ", "ლ", "მ", "ნ", "ო",
     "პ", "ჟ", "რ", "ს", "ტ", "უ", "ფ", "ქ", "ღ", "ყ", "შ", "ჩ",
     "ც", "ძ", "წ", "ჭ", "ხ", "ჯ", "ჰ", "ჱ", "ჲ", "ჳ", "ჴ", "ჵ",
     "ჶ", "ჷ", "ჸ", "ჹ", "ჺ", "ჼ", "ჽ", "ჾ", "ჿ", "Ꭰ", "Ꭱ", "Ꭲ",
     "Ꭳ", "Ꭴ", "Ꭵ", "Ꭶ", "Ꭷ", "Ꭸ", "Ꭹ", "Ꭺ", "Ꭻ", "Ꭼ", "Ꭽ", "Ꭾ",
     "Ꭿ", "Ꮀ", "Ꮁ", "Ꮂ", "Ꮃ", "Ꮄ", "Ꮅ", "Ꮆ", "Ꮇ", "Ꮈ", "Ꮉ", "Ꮊ",
     "Ꮋ", "Ꮌ", "Ꮍ", "Ꮎ", "Ꮏ", "Ꮐ", "Ꮑ", "Ꮒ", "Ꮓ", "Ꮔ", "Ꮕ", "Ꮖ",
     "Ꮗ", "Ꮘ", "Ꮙ", "Ꮚ", "Ꮛ", "Ꮜ", "Ꮝ", "Ꮞ", "Ꮟ", "Ꮠ", "Ꮡ", "Ꮢ",
     "Ꮣ", "Ꮤ", "Ꮥ", "Ꮦ", "Ꮧ", "Ꮨ", "Ꮩ", "Ꮪ", "Ꮫ", "Ꮬ", "Ꮭ", "Ꮮ",
     "Ꮯ", "Ꮰ", "Ꮱ", "Ꮲ", "Ꮳ", "Ꮴ", "Ꮵ", "Ꮶ", "Ꮷ", "Ꮸ", "Ꮹ", "Ꮺ",
     "Ꮻ", "Ꮼ", "Ꮽ", "Ꮾ", "Ꮿ", "Ᏸ", "Ᏹ", "Ᏺ", "Ᏻ", "Ᏼ", "Ᏽ", "ᏸ",
     "ᏹ", "ᏺ", "ᏻ", "ᏼ", "ᏽ", "ᲀ", "ᲁ", "ᲂ", "ᲃ", "ᲄ", "ᲅ", "ᲆ",
     "ᲇ", "ᲈ", "Ᲊ", "ᲊ", "Ა", "Ბ", "Გ", "Დ", "Ე", "Ვ", "Ზ", "Თ",
     "Ი", "Კ", "Ლ", "Მ", "Ნ", "Ო", "Პ", "Ჟ", "Რ", "Ს", "Ტ", "Უ",
     "Ფ", "Ქ", "Ღ", "Ყ", "Შ", "Ჩ", "Ც", "Ძ", "Წ", "Ჭ", "Ხ", "Ჯ",
     "Ჰ", "Ჱ", "Ჲ", "Ჳ", "Ჴ", "Ჵ", "Ჶ", "Ჷ", "Ჸ", "Ჹ", "Ჺ", "Ჽ",
     "Ჾ", "Ჿ", "U+1D00", "U+1D01", "U+1D02", "U+1D03", "U+1D04", "U+1D05", "U+1D06", "U+1D07", "U+1D08", "U+1D09",
     "U+1D0A", "U+1D0B", "U+1D0C", "U+1D0D", "U+1D0E", "U+1D0F", "U+1D10", "U+1D11", "U+1D12", "U+1D13", "U+1D14", "U+1D15",
     "U+1D16", "U+1D17", "U+1D18", "U+1D19", "U+1D1A", "U+1D1B", "U+1D1C", "U+1D1D", "U+1D1E", "U+1D1F", "U+1D20", "U+1D21",
     "U+1D22", "U+1D23", "U+1D24", "U+1D25", "U+1D26", "U+1D27", "U+1D28", "U+1D29", "U+1D2A", "U+1D2B", "U+1D2C", "U+1D2D",
     "U+1D2E", "U+1D2F", "U+1D30", "U+1D31", "U+1D32", "U+1D33", "U+1D34", "U+1D35", "U+1D36", "U+1D37", "U+1D38", "U+1D39",
     "U+1D3A", "U+1D3B", "U+1D3C", "U+1D3D", "U+1D3E", "U+1D3F", "U+1D40", "U+1D41", "U+1D42", "U+1D43", "U+1D44", "U+1D45",
     "U+1D46", "U+1D47", "U+1D48", "U+1D49", "U+1D4A", "U+1D4B", "U+1D4C", "U+1D4D", "U+1D4E", "U+1D4F", "U+1D50", "U+1D51",
     "U+1D52", "U+1D53", "U+1D54", "U+1D55", "U+1D56", "U+1D57", "U+1D58", "U+1D59", "U+1D5A", "U+1D5B", "U+1D5C", "U+1D5D",
     "U+1D5E", "U+1D5F", "U+1D60", "U+1D61", "U+1D62", "U+1D63", "U+1D64", "U+1D65", "U+1D66", "U+1D67", "U+1D68", "U+1D69",
     "U+1D6A", "U+1D6B", "U+1D6C", "U+1D6D", "U+1D6E", "U+1D6F", "U+1D70", "U+1D71", "U+1D72", "U+1D73", "U+1D74", "U+1D75",
     "U+1D76", "U+1D77", "U+1D78", "U+1D79", "U+1D7A", "U+1D7B", "U+1D7C", "U+1D7D", "U+1D7E", "U+1D7F", "ᶀ", "ᶁ",
     "ᶂ", "ᶃ", "ᶄ", "ᶅ", "ᶆ", "ᶇ", "ᶈ", "ᶉ", "ᶊ", "ᶋ", "ᶌ", "ᶍ",
     "ᶎ", "ᶏ", "ᶐ", "ᶑ", "ᶒ", "ᶓ", "ᶔ", "ᶕ", "ᶖ", "ᶗ", "ᶘ", "ᶙ",
     "ᶚ", "ᶛ", "ᶜ", "ᶝ", "ᶞ", "ᶟ", "ᶠ", "ᶡ", "ᶢ", "ᶣ", "ᶤ", "ᶥ",
     "ᶦ", "ᶧ", "ᶨ", "ᶩ", "ᶪ", "ᶫ", "ᶬ", "ᶭ", "ᶮ", "ᶯ", "ᶰ", "ᶱ",
     "ᶲ", "ᶳ", "ᶴ", "ᶵ", "ᶶ", "ᶷ", "ᶸ", "ᶹ", "ᶺ", "ᶻ", "ᶼ", "ᶽ",
     "ᶾ", "ᶿ", "U+1E00", "U+1E01", "U+1E02", "U+1E03", "U+1E04", "U+1E05", "U+1E06", "U+1E07", "U+1E08", "U+1E09",
     "U+1E0A", "U+1E0B", "U+1E0C", "U+1E0D", "U+1E0E", "U+1E0F", "U+1E10", "U+1E11", "U+1E12", "U+1E13", "U+1E14", "U+1E15",
     "U+1E16", "U+1E17", "U+1E18", "U+1E19", "U+1E1A", "U+1E1B", "U+1E1C", "U+1E1D", "U+1E1E", "U+1E1F", "U+1E20", "U+1E21",
     "U+1E22", "U+1E23", "U+1E24", "U+1E25", "U+1E26", "U+1E27", "U+1E28", "U+1E29", "U+1E2A", "U+1E2B", "U+1E2C", "U+1E2D",
     "U+1E2E", "U+1E2F", "U+1E30", "U+1E31", "U+1E32", "U+1E33", "U+1E34", "U+1E35", "U+1E36", "U+1E37", "U+1E38", "U+1E39",
     "U+1E3A", "U+1E3B", "U+1E3C", "U+1E3D", "U+1E3E", "U+1E3F", "U+1E40", "U+1E41", "U+1E42", "U+1E43", "U+1E44", "U+1E45",
     "U+1E46", "U+1E47", "U+1E48", "U+1E49", "U+1E4A", "U+1E4B", "U+1E4C", "U+1E4D", "U+1E4E", "U+1E4F", "U+1E50", "U+1E51",
     "U+1E52", "U+1E53", "U+1E54", "U+1E55", "U+1E56", "U+1E57", "U+1E58", "U+1E59", "U+1E5A", "U+1E5B", "U+1E5C", "U+1E5D",
     "U+1E5E", "U+1E5F", "U+1E60", "U+1E61", "U+1E62", "U+1E63", "U+1E64", "U+1E65", "U+1E66", "U+1E67", "U+1E68", "U+1E69",
     "U+1E6A", "U+1E6B", "U+1E6C", "U+1E6D", "U+1E6E", "U+1E6F", "U+1E70", "U+1E71", "U+1E72", "U+1E73", "U+1E74", "U+1E75",
     "U+1E76", "U+1E77", "U+1E78", "U+1E79", "U+1E7A", "U+1E7B", "U+1E7C", "U+1E7D", "U+1E7E", "U+1E7F", "Ẁ", "ẁ",
     "Ẃ", "ẃ", "Ẅ", "ẅ", "Ẇ", "ẇ", "Ẉ", "ẉ", "Ẋ", "ẋ", "Ẍ", "ẍ",
     "Ẏ", "ẏ", "Ẑ", "ẑ", "Ẓ", "ẓ", "Ẕ", "ẕ", "ẖ", "ẗ", "ẘ", "ẙ",
     "ẚ", "ẛ", "ẜ", "ẝ", "ẞ", "ẟ", "Ạ", "ạ", "Ả", "ả", "Ấ", "ấ",
     "Ầ", "ầ", "Ẩ", "ẩ", "Ẫ", "ẫ", "Ậ", "ậ", "Ắ", "ắ", "Ằ", "ằ",
     "Ẳ", "ẳ", "Ẵ", "ẵ", "Ặ", "ặ", "Ẹ", "ẹ", "Ẻ", "ẻ", "Ẽ", "ẽ",
     "Ế", "ế", "Ề", "ề", "Ể", "ể", "Ễ", "ễ", "Ệ", "ệ", "Ỉ", "ỉ",
     "Ị", "ị", "Ọ", "ọ", "Ỏ", "ỏ", "Ố", "ố", "Ồ", "ồ", "Ổ", "ổ",
     "Ỗ", "ỗ", "Ộ", "ộ", "Ớ", "ớ", "Ờ", "ờ", "Ở", "ở", "Ỡ", "ỡ",
     "Ợ", "ợ", "Ụ", "ụ", "Ủ", "ủ", "Ứ", "ứ", "Ừ", "ừ", "Ử", "ử",
     "Ữ", "ữ", "Ự", "ự", "Ỳ", "ỳ", "Ỵ", "ỵ", "Ỷ", "ỷ", "Ỹ", "ỹ",
     "Ỻ", "ỻ", "Ỽ", "ỽ", "Ỿ", "ỿ", "U+1F00", "U+1F01", "U+1F02", "U+1F03", "U+1F04", "U+1F05",
     "U+1F06", "U+1F07", "U+1F08", "U+1F09", "U+1F0A", "U+1F0B", "U+1F0C", "U+1F0D", "U+1F0E", "U+1F0F", "U+1F10", "U+1F11",
     "U+1F12", "U+1F13", "U+1F14", "U+1F15", "U+1F18", "U+1F19", "U+1F1A", "U+1F1B", "U+1F1C", "U+1F1D", "U+1F20", "U+1F21",
     "U+1F22", "U+1F23", "U+1F24", "U+1F25", "U+1F26", "U+1F27", "U+1F28", "U+1F29", "U+1F2A", "U+1F2B", "U+1F2C", "U+1F2D",
     "U+1F2E", "U+1F2F", "U+1F30", "U+1F31", "U+1F32", "U+1F33", "U+1F34", "U+1F35", "U+1F36", "U+1F37", "U+1F38", "U+1F39",
     "U+1F3A", "U+1F3B", "U+1F3C", "U+1F3D", "U+1F3E", "U+1F3F", "U+1F40", "U+1F41", "U+1F42", "U+1F43", "U+1F44", "U+1F45",
     "U+1F48", "U+1F49", "U+1F4A", "U+1F4B", "U+1F4C", "U+1F4D", "U+1F50", "U+1F51", "U+1F52", "U+1F53", "U+1F54", "U+1F55",
     "U+1F56", "U+1F57", "U+1F59", "U+1F5B", "U+1F5D", "U+1F5F", "U+1F60", "U+1F61", "U+1F62", "U+1F63", "U+1F64", "U+1F65",
     "U+1F66", "U+1F67", "U+1F68", "U+1F69", "U+1F6A", "U+1F6B", "U+1F6C", "U+1F6D", "U+1F6E", "U+1F6F", "U+1F70", "U+1F71",
     "U+1F72", "U+1F73", "U+1F74", "U+1F75", "U+1F76", "U+1F77", "U+1F78", "U+1F79", "U+1F7A", "U+1F7B", "U+1F7C", "U+1F7D",
     "ᾀ", "ᾁ", "ᾂ", "ᾃ", "ᾄ", "ᾅ", "ᾆ", "ᾇ", "ᾈ", "ᾉ", "ᾊ", "ᾋ",
     "ᾌ", "ᾍ", "ᾎ", "ᾏ", "ᾐ", "ᾑ", "ᾒ", "ᾓ", "ᾔ", "ᾕ", "ᾖ", "ᾗ",
     "ᾘ", "ᾙ", "ᾚ", "ᾛ", "ᾜ", "ᾝ", "ᾞ", "ᾟ", "ᾠ", "ᾡ", "ᾢ", "ᾣ",
     "ᾤ", "ᾥ", "ᾦ", "ᾧ", "ᾨ", "ᾩ", "ᾪ", "ᾫ", "ᾬ", "ᾭ", "ᾮ", "ᾯ",
     "ᾰ", "ᾱ", "ᾲ", "ᾳ", "ᾴ", "ᾶ", "ᾷ", "Ᾰ", "Ᾱ", "Ὰ", "Ά", "ᾼ",
     "ι", "ῂ", "ῃ", "ῄ", "ῆ", "ῇ", "Ὲ", "Έ", "Ὴ", "Ή", "ῌ", "ῐ",
     "ῑ", "ῒ", "ΐ", "ῖ", "ῗ", "Ῐ", "Ῑ", "Ὶ", "Ί", "ῠ", "ῡ", "ῢ",
     "ΰ", "ῤ", "ῥ", "ῦ", "ῧ", "Ῠ", "Ῡ", "Ὺ", "Ύ", "Ῥ", "ῲ", "ῳ",
     "ῴ", "ῶ", "ῷ", "Ὸ", "Ό", "Ὼ", "Ώ", "ῼ", "U+2071", "U+207F", "ₐ", "ₑ",
     "ₒ", "ₓ", "ₔ", "ₕ", "ₖ", "ₗ", "ₘ", "ₙ", "ₚ", "ₛ", "ₜ", "U+2102",
     "U+2107", "U+210A", "U+210B", "U+210C", "U+210D", "U+210E", "U+210F", "U+2110", "U+2111", "U+2112", "U+2113", "U+2115",
     "U+2119", "U+211A", "U+211B", "U+211C", "U+211D", "U+2124", "U+2126", "U+2128", "U+212A", "U+212B", "U+212C", "U+212D",
     "U+212F", "U+2130", "U+2131", "U+2132", "U+2133", "U+2134", "U+2139", "U+213C", "U+213D", "U+213E", "U+213F", "U+2145",
     "U+2146", "U+2147", "U+2148", "U+2149", "U+214E", "U+2160", "U+2161", "U+2162", "U+2163", "U+2164", "U+2165", "U+2166",
     "U+2167", "U+2168", "U+2169", "U+216A", "U+216B", "U+216C", "U+216D", "U+216E", "U+216F", "U+2170", "U+2171", "U+2172",
     "U+2173", "U+2174", "U+2175", "U+2176", "U+2177", "U+2178", "U+2179", "U+217A", "U+217B", "U+217C", "U+217D", "U+217E",
     "U+217F", "Ↄ", "ↄ", "Ⓐ", "Ⓑ", "Ⓒ", "Ⓓ", "Ⓔ", "Ⓕ", "Ⓖ", "Ⓗ", "Ⓘ",
     "Ⓙ", "Ⓚ", "Ⓛ", "Ⓜ", "Ⓝ", "Ⓞ", "Ⓟ", "Ⓠ", "Ⓡ", "Ⓢ", "Ⓣ", "Ⓤ",
     "Ⓥ", "Ⓦ", "Ⓧ", "Ⓨ", "Ⓩ", "ⓐ", "ⓑ", "ⓒ", "ⓓ", "ⓔ", "ⓕ", "ⓖ",
     "ⓗ", "ⓘ", "ⓙ", "ⓚ", "ⓛ", "ⓜ", "ⓝ", "ⓞ", "ⓟ", "ⓠ", "ⓡ", "ⓢ",
     "ⓣ", "ⓤ", "ⓥ", "ⓦ", "ⓧ", "ⓨ", "ⓩ", "U+2C00", "U+2C01", "U+2C02", "U+2C03", "U+2C04",
     "U+2C05", "U+2C06", "U+2C07", "U+2C08", "U+2C09", "U+2C0A", "U+2C0B", "U+2C0C", "U+2C0D", "U+2C0E", "U+2C0F", "U+2C10",
     "U+2C11", "U+2C12", "U+2C13", "U+2C14", "U+2C15", "U+2C16", "U+2C17", "U+2C18", "U+2C19", "U+2C1A", "U+2C1B", "U+2C1C",
     "U+2C1D", "U+2C1E", "U+2C1F", "U+2C20", "U+2C21", "U+2C22", "U+2C23", "U+2C24", "U+2C25", "U+2C26", "U+2C27", "U+2C28",
     "U+2C29", "U+2C2A", "U+2C2B", "U+2C2C", "U+2C2D", "U+2C2E", "U+2C2F", "U+2C30", "U+2C31", "U+2C32", "U+2C33", "U+2C34",
     "U+2C35", "U+2C36", "U+2C37", "U+2C38", "U+2C39", "U+2C3A", "U+2C3B", "U+2C3C", "U+2C3D", "U+2C3E", "U+2C3F", "U+2C40",
     "U+2C41", "U+2C42", "U+2C43", "U+2C44", "U+2C45", "U+2C46", "U+2C47", "U+2C48", "U+2C49", "U+2C4A", "U+2C4B", "U+2C4C",
     "U+2C4D", "U+2C4E", "U+2C4F", "U+2C50", "U+2C51", "U+2C52", "U+2C53", "U+2C54", "U+2C55", "U+2C56", "U+2C57", "U+2C58",
     "U+2C59", "U+2C5A", "U+2C5B", "U+2C5C", "U+2C5D", "U+2C5E", "U+2C5F", "U+2C60", "U+2C61", "U+2C62", "U+2C63", "U+2C64",
     "U+2C65", "U+2C66", "U+2C67", "U+2C68", "U+2C69", "U+2C6A", "U+2C6B", "U+2C6C", "U+2C6D", "U+2C6E", "U+2C6F", "U+2C70",
     "U+2C71", "U+2C72", "U+2C73", "U+2C74", "U+2C75", "U+2C76", "U+2C77", "U+2C78", "U+2C79", "U+2C7A", "U+2C7B", "U+2C7C",
     "U+2C7D", "U+2C7E", "U+2C7F", "Ⲁ", "ⲁ", "Ⲃ", "ⲃ", "Ⲅ", "ⲅ", "Ⲇ", "ⲇ", "Ⲉ",
     "ⲉ", "Ⲋ", "ⲋ", "Ⲍ", "ⲍ", "Ⲏ", "ⲏ", "Ⲑ", "ⲑ", "Ⲓ", "ⲓ", "Ⲕ",
     "ⲕ", "Ⲗ", "ⲗ", "Ⲙ", "ⲙ", "Ⲛ", "ⲛ", "Ⲝ", "ⲝ", "Ⲟ", "ⲟ", "Ⲡ",
     "ⲡ", "Ⲣ", "ⲣ", "Ⲥ", "ⲥ", "Ⲧ", "ⲧ", "Ⲩ", "ⲩ", "Ⲫ", "ⲫ", "Ⲭ",
     "ⲭ", "Ⲯ", "ⲯ", "Ⲱ", "ⲱ", "Ⲳ", "ⲳ", "Ⲵ", "ⲵ", "Ⲷ", "ⲷ", "Ⲹ",
     "ⲹ", "Ⲻ", "ⲻ", "Ⲽ", "ⲽ", "Ⲿ", "ⲿ", "Ⳁ", "ⳁ", "Ⳃ", "ⳃ", "Ⳅ",
     "ⳅ", "Ⳇ", "ⳇ", "Ⳉ", "ⳉ", "Ⳋ", "ⳋ", "Ⳍ", "ⳍ", "Ⳏ", "ⳏ", "Ⳑ",
     "ⳑ", "Ⳓ", "ⳓ", "Ⳕ", "ⳕ", "Ⳗ", "ⳗ", "Ⳙ", "ⳙ", "Ⳛ", "ⳛ", "Ⳝ",
     "ⳝ", "Ⳟ", "ⳟ", "Ⳡ", "ⳡ", "Ⳣ", "ⳣ", "ⳤ", "Ⳬ", "ⳬ", "Ⳮ", "ⳮ",
     "Ⳳ", "ⳳ", "U+2D00", "U+2D01", "U+2D02", "U+2D03", "U+2D04", "U+2D05", "U+2D06", "U+2D07", "U+2D08", "U+2D09",
     "U+2D0A", "U+2D0B", "U+2D0C", "U+2D0D", "U+2D0E", "U+2D0F", "U+2D10", "U+2D11", "U+2D12", "U+2D13", "U+2D14", "U+2D15",
     "U+2D16", "U+2D17", "U+2D18", "U+2D19", "U+2D1A", "U+2D1B", "U+2D1C", "U+2D1D", "U+2D1E", "U+2D1F", "U+2D20", "U+2D21",
     "U+2D22", "U+2D23", "U+2D24", "U+2D25", "U+2D27", "U+2D2D", "U+A640", "U+A641", "U+A642", "U+A643", "U+A644", "U+A645",
     "U+A646", "U+A647", "U+A648", "U+A649", "U+A64A", "U+A64B", "U+A64C", "U+A64D", "U+A64E", "U+A64F", "U+A650", "U+A651",
     "U+A652", "U+A653", "U+A654", "U+A655", "U+A656", "U+A657", "U+A658", "U+A659", "U+A65A", "U+A65B", "U+A65C", "U+A65D",
     "U+A65E", "U+A65F", "U+A660", "U+A661", "U+A662", "U+A663", "U+A664", "U+A665", "U+A666", "U+A667", "U+A668", "U+A669",
     "U+A66A", "U+A66B", "U+A66C", "U+A66D", "Ꚁ", "ꚁ", "Ꚃ", "ꚃ", "Ꚅ", "ꚅ", "Ꚇ", "ꚇ",
     "Ꚉ", "ꚉ", "Ꚋ", "ꚋ", "Ꚍ", "ꚍ", "Ꚏ", "ꚏ", "Ꚑ", "ꚑ", "Ꚓ", "ꚓ",
     "Ꚕ", "ꚕ", "Ꚗ", "ꚗ", "Ꚙ", "ꚙ", "Ꚛ", "ꚛ", "ꚜ", "ꚝ", "U+A722", "U+A723",
     "U+A724", "U+A725", "U+A726", "U+A727", "U+A728", "U+A729", "U+A72A", "U+A72B", "U+A72C", "U+A72D", "U+A72E", "U+A72F",
     "U+A730", "U+A731", "U+A732", "U+A733", "U+A734", "U+A735", "U+A736", "U+A737", "U+A738", "U+A739", "U+A73A", "U+A73B",
     "U+A73C", "U+A73D", "U+A73E", "U+A73F", "U+A740", "U+A741", "U+A742", "U+A743", "U+A744", "U+A745", "U+A746", "U+A747",
     "U+A748", "U+A749", "U+A74A", "U+A74B", "U+A74C", "U+A74D", "U+A74E", "U+A74F", "U+A750", "U+A751", "U+A752", "U+A753",
     "U+A754", "U+A755", "U+A756", "U+A757", "U+A758", "U+A759", "U+A75A", "U+A75B", "U+A75C", "U+A75D", "U+A75E", "U+A75F",
     "U+A760", "U+A761", "U+A762", "U+A763", "U+A764", "U+A765", "U+A766", "U+A767", "U+A768", "U+A769", "U+A76A", "U+A76B",
     "U+A76C", "U+A76D", "U+A76E", "U+A76F", "U+A770", "U+A771", "U+A772", "U+A773", "U+A774", "U+A775", "U+A776", "U+A777",
     "U+A778", "U+A779", "U+A77A", "U+A77B", "U+A77C", "U+A77D", "U+A77E", "U+A77F", "Ꞁ", "ꞁ", "Ꞃ", "ꞃ",
     "Ꞅ", "ꞅ", "Ꞇ", "ꞇ", "Ꞌ", "ꞌ", "Ɥ", "ꞎ", "Ꞑ", "ꞑ", "Ꞓ", "ꞓ",
     "ꞔ", "ꞕ", "Ꞗ", "ꞗ", "Ꞙ", "ꞙ", "Ꞛ", "ꞛ", "Ꞝ", "ꞝ", "Ꞟ", "ꞟ",
     "Ꞡ", "ꞡ", "Ꞣ", "ꞣ", "Ꞥ", "ꞥ", "Ꞧ", "ꞧ", "Ꞩ", "ꞩ", "Ɦ", "Ɜ",
     "Ɡ", "Ɬ", "Ɪ", "ꞯ", "Ʞ", "Ʇ", "Ʝ", "Ꭓ", "Ꞵ", "ꞵ", "Ꞷ", "ꞷ",
     "Ꞹ", "ꞹ", "Ꞻ", "ꞻ", "Ꞽ", "ꞽ", "Ꞿ", "ꞿ", "Ꟁ", "ꟁ", "Ꟃ", "ꟃ",
     "Ꞔ", "Ʂ", "Ᶎ", "Ꟈ", "ꟈ", "Ꟊ", "ꟊ", "Ɤ", "Ꟍ", "ꟍ", "꟎", "꟏",
     "Ꟑ", "ꟑ", "꟒", "ꟓ", "꟔", "ꟕ", "Ꟗ", "ꟗ", "Ꟙ", "ꟙ", "Ꟛ", "ꟛ",
     "Ƛ", "꟱", "ꟲ", "ꟳ", "ꟴ", "Ꟶ", "ꟶ", "ꟸ", "ꟹ", "ꟺ", "U+AB30", "U+AB31",
     "U+AB32", "U+AB33", "U+AB34", "U+AB35", "U+AB36", "U+AB37", "U+AB38", "U+AB39", "U+AB3A", "U+AB3B", "U+AB3C", "U+AB3D",
     "U+AB3E", "U+AB3F", "U+AB40", "U+AB41", "U+AB42", "U+AB43", "U+AB44", "U+AB45", "U+AB46", "U+AB47", "U+AB48", "U+AB49",
     "U+AB4A", "U+AB4B", "U+AB4C", "U+AB4D", "U+AB4E", "U+AB4F", "U+AB50", "U+AB51", "U+AB52", "U+AB53", "U+AB54", "U+AB55",
     "U+AB56", "U+AB57", "U+AB58", "U+AB59", "U+AB5A", "U+AB5C", "U+AB5D", "U+AB5E", "U+AB5F", "U+AB60", "U+AB61", "U+AB62",
     "U+AB63", "U+AB64", "U+AB65", "U+AB66", "U+AB67", "U+AB68", "U+AB69", "U+AB70", "U+AB71", "U+AB72", "U+AB73", "U+AB74",
     "U+AB75", "U+AB76", "U+AB77", "U+AB78", "U+AB79", "U+AB7A", "U+AB7B", "U+AB7C", "U+AB7D", "U+AB7E", "U+AB7F", "ꮀ",
     "ꮁ", "ꮂ", "ꮃ", "ꮄ", "ꮅ", "ꮆ", "ꮇ", "ꮈ", "ꮉ", "ꮊ", "ꮋ", "ꮌ",
     "ꮍ", "ꮎ", "ꮏ", "ꮐ", "ꮑ", "ꮒ", "ꮓ", "ꮔ", "ꮕ", "ꮖ", "ꮗ", "ꮘ",
     "ꮙ", "ꮚ", "ꮛ", "ꮜ", "ꮝ", "ꮞ", "ꮟ", "ꮠ", "ꮡ", "ꮢ", "ꮣ", "ꮤ",
     "ꮥ", "ꮦ", "ꮧ", "ꮨ", "ꮩ", "ꮪ", "ꮫ", "ꮬ", "ꮭ", "ꮮ", "ꮯ", "ꮰ",
     "ꮱ", "ꮲ", "ꮳ", "ꮴ", "ꮵ", "ꮶ", "ꮷ", "ꮸ", "ꮹ", "ꮺ", "ꮻ", "ꮼ",
     "ꮽ", "ꮾ", "ꮿ", "U+FB00", "U+FB01", "U+FB02", "U+FB03", "U+FB04", "U+FB05", "U+FB06", "U+FB13", "U+FB14",
     "U+FB15", "U+FB16", "U+FB17", "U+FF21", "U+FF22", "U+FF23", "U+FF24", "U+FF25", "U+FF26", "U+FF27", "U+FF28", "U+FF29",
     "U+FF2A", "U+FF2B", "U+FF2C", "U+FF2D", "U+FF2E", "U+FF2F", "U+FF30", "U+FF31", "U+FF32", "U+FF33", "U+FF34", "U+FF35",
     "U+FF36", "U+FF37", "U+FF38", "U+FF39", "U+FF3A", "U+FF41", "U+FF42", "U+FF43", "U+FF44", "U+FF45", "U+FF46", "U+FF47",
     "U+FF48", "U+FF49", "U+FF4A", "U+FF4B", "U+FF4C", "U+FF4D", "U+FF4E", "U+FF4F", "U+FF50", "U+FF51", "U+FF52", "U+FF53",
     "U+FF54", "U+FF55", "U+FF56", "U+FF57", "U+FF58", "U+FF59", "U+FF5A"
    }

\* the code units with the Unicode property Case_Ignorable
CaseIgnorable ==
    {
     "'", ".", ":", "^", "U+0060", "¨", "­", "¯", "´", "·", "¸", "ʰ",
     "ʱ", "ʲ", "ʳ", "ʴ", "ʵ", "ʶ", "ʷ", "ʸ", "ʹ", "ʺ", "ʻ", "ʼ",
     "ʽ", "ʾ", "ʿ", "ˀ", "ˁ", "˂", "˃", "˄", "˅", "ˆ", "ˇ", "ˈ",
     "ˉ", "ˊ", "ˋ", "ˌ", "ˍ", "ˎ", "ˏ", "ː", "ˑ", "˒", "˓", "˔",
     "˕", "˖", "˗", "˘", "˙", "˚", "˛", "˜", "˝", "˞", "˟", "ˠ",
     "ˡ", "ˢ", "ˣ", "ˤ", "˥", "˦", "˧", "˨", "˩", "˪", "˫", "ˬ",
     "˭", "ˮ", "˯", "˰", "˱", "˲", "˳", "˴", "˵", "˶", "˷", "˸",
     "˹", "˺", "˻", "˼", "˽", "˾", "˿", "U+0300", "U+0301", "U+0302", "U+0303", "U+0304",
     "U+0305", "U+0306", "U+0307", "U+0308", "U+0309", "U+030A", "U+030B", "U+030C", "U+030D", "U+030E", "U+030F", "U+0310",
     "U+0311", "U+0312", "U+0313", "U+0314", "U+0315", "U+0316", "U+0317", "U+0318", "U+0319", "U+031A", "U+031B", "U+031C",
     "U+031D", "U+031E", "U+031F", "U+0320", "U+0321", "U+0322", "U+0323", "U+0324", "U+0325", "U+0326", "U+0327", "U+0328",
     "U+0329", "U+032A", "U+032B", "U+032C", "U+032D", "U+032E", "U+032F", "U+0330", "U+0331", "U+0332", "U+0333", "U+0334",
     "U+0335", "U+0336", "U+0337", "U+0338", "U+0339", "U+033A", "U+033B", "U+033C", "U+033D", "U+033E", "U+033F", "U+0340",
     "U+0341", "U+0342", "U+0343", "U+0344", "U+0345", "U+0346", "U+0347", "U+0348", "U+0349", "U+034A", "U+034B", "U+034C",
     "U+034D", "U+034E", "U+034F", "U+0350", "U+0351", "U+0352", "U+0353", "U+0354", "U+0355", "U+0356", "U+0357", "U+0358",
     "U+0359", "U+035A", "U+035B", "U+035C", "U+035D", "U+035E", "U+035F", "U+0360", "U+0361", "U+0362", "U+0363", "U+0364",
     "U+0365", "U+0366", "U+0367", "U+0368", "U+0369", "U+036A", "U+036B", "U+036C", "U+036D", "U+036E", "U+036F", "U+0374",
     "U+0375", "U+037A", "΄", "΅", "·", "҃", "҄", "҅", "҆", "҇", "҈", "҉",
     "U+0559", "U+055F", "֑", "֒", "֓", "֔", "֕", "֖", "֗", "֘", "֙", "֚",
     "֛", "֜", "֝", "֞", "֟", "֠", "֡", "֢", "֣", "֤", "֥", "֦",
     "֧", "֨", "֩", "֪", "֫", "֬", "֭", "֮", "֯", "ְ", "ֱ", "ֲ",
     "ֳ", "ִ", "ֵ", "ֶ", "ַ", "ָ", "ֹ", "ֺ", "ֻ", "ּ", "ֽ", "ֿ",
     "ׁ", "ׂ", "ׄ", "ׅ", "ׇ", "״", "U+0600", "U+0601", "U+0602", "U+0603", "U+0604", "U+0605",
     "U+0610", "U+0611", "U+0612", "U+0613", "U+0614", "U+0615", "U+0616", "U+0617", "U+0618", "U+0619", "U+061A", "U+061C",
     "U+0640", "U+064B", "U+064C", "U+064D", "U+064E", "U+064F", "U+0650", "U+0651", "U+0652", "U+0653", "U+0654", "U+0655",
     "U+0656", "U+0657", "U+0658", "U+0659", "U+065A", "U+065B", "U+065C", "U+065D", "U+065E", "U+065F", "U+0670", "ۖ",
     "ۗ", "ۘ", "ۙ", "ۚ", "ۛ", "ۜ", "۝", "۟", "۠", "ۡ", "ۢ", "ۣ",
     "ۤ", "ۥ", "ۦ", "ۧ", "ۨ", "۪", "۫", "۬", "ۭ", "U+070F", "U+0711", "U+0730",
     "U+0731", "U+0732", "U+0733", "U+0734", "U+0735", "U+0736", "U+0737", "U+0738", "U+0739", "U+073A", "U+073B", "U+073C",
     "U+073D", "U+073E", "U+073F", "U+0740", "U+0741", "U+0742", "U+0743", "U+0744", "U+0745", "U+0746", "U+0747", "U+0748",
     "U+0749", "U+074A", "ަ", "ާ", "ި", "ީ", "ު", "ޫ", "ެ", "ޭ", "ޮ", "ޯ",
     "ް", "߫", "߬", "߭", "߮", "߯", "߰", "߱", "߲", "߳", "ߴ", "ߵ",
     "ߺ", "߽", "U+0816", "U+0817", "U+0818", "U+0819", "U+081A", "U+081B", "U+081C", "U+081D", "U+081E", "U+081F",
     "U+0820", "U+0821", "U+0822", "U+0823", "U+0824", "U+0825", "U+0826", "U+0827", "U+0828", "U+0829", "U+082A", "U+082B",
     "U+082C", "U+082D", "U+0859", "U+085A", "U+085B", "࢈", "࢐", "࢑", "ࢗ", "࢘", "࢙", "࢚",
     "࢛", "࢜", "࢝", "࢞", "࢟", "ࣉ", "࣊", "࣋", "࣌", "࣍", "࣎", "࣏",
     "࣐", "࣑", "࣒", "࣓", "ࣔ", "ࣕ", "ࣖ", "ࣗ", "ࣘ", "ࣙ", "ࣚ", "ࣛ",
     "ࣜ", "ࣝ", "ࣞ", "ࣟ", "࣠", "࣡", "࣢", "ࣣ", "ࣤ", "ࣥ", "ࣦ", "ࣧ",
     "ࣨ", "ࣩ", "࣪", "࣫", "࣬", "࣭", "࣮", "࣯", "ࣰ", "ࣱ", "ࣲ", "ࣳ",
     "ࣴ", "ࣵ", "ࣶ", "ࣷ", "ࣸ", "ࣹ", "ࣺ", "ࣻ", "ࣼ", "ࣽ", "ࣾ", "ࣿ",
     "U+0900", "U+0901", "U+0902", "U+093A", "U+093C", "U+0941", "U+0942", "U+0943", "U+0944", "U+0945", "U+0946", "U+0947",
     "U+0948", "U+094D", "U+0951", "U+0952", "U+0953", "U+0954", "U+0955", "U+0956", "U+0957", "U+0962", "U+0963", "U+0971",
     "ঁ", "়", "ু", "ূ", "ৃ", "ৄ", "্", "ৢ", "ৣ", "৾", "U+0A01", "U+0A02",
     "U+0A3C", "U+0A41", "U+0A42", "U+0A47", "U+0A48", "U+0A4B", "U+0A4C", "U+0A4D", "U+0A51", "U+0A70", "U+0A71", "U+0A75",
     "ઁ", "ં", "઼", "ુ", "ૂ", "ૃ", "ૄ", "ૅ", "ે", "ૈ", "્", "ૢ",
     "ૣ", "ૺ", "ૻ", "ૼ", "૽", "૾", "૿", "U+0B01", "U+0B3C", "U+0B3F", "U+0B41", "U+0B42",
     "U+0B43", "U+0B44", "U+0B4D", "U+0B55", "U+0B56", "U+0B62", "U+0B63", "ஂ", "ீ", "்", "U+0C00", "U+0C04",
     "U+0C3C", "U+0C3E", "U+0C3F", "U+0C40", "U+0C46", "U+0C47", "U+0C48", "U+0C4A", "U+0C4B", "U+0C4C", "U+0C4D", "U+0C55",
     "U+0C56", "U+0C62", "U+0C63", "ಁ", "಼", "ಿ", "ೆ", "ೌ", "್", "ೢ", "ೣ", "U+0D00",
     "U+0D01", "U+0D3B", "U+0D3C", "U+0D41", "U+0D42", "U+0D43", "U+0D44", "U+0D4D", "U+0D62", "U+0D63", "ඁ", "්",
     "ි", "ී", "ු", "ූ", "U+0E31", "U+0E34", "U+0E35", "U+0E36", "U+0E37", "U+0E38", "U+0E39", "U+0E3A",
     "U+0E46", "U+0E47", "U+0E48", "U+0E49", "U+0E4A", "U+0E4B", "U+0E4C", "U+0E4D", "U+0E4E", "ັ", "ິ", "ີ",
     "ຶ", "ື", "ຸ", "ູ", "຺", "ົ", "ຼ", "ໆ", "່", "້", "໊", "໋",
     "໌", "ໍ", "໎", "U+0F18", "U+0F19", "U+0F35", "U+0F37", "U+0F39", "U+0F71", "U+0F72", "U+0F73", "U+0F74",
     "U+0F75", "U+0F76", "U+0F77", "U+0F78", "U+0F79", "U+0F7A", "U+0F7B", "U+0F7C", "U+0F7D", "U+0F7E", "ྀ", "ཱྀ",
     "ྂ", "ྃ", "྄", "྆", "྇", "ྍ", "ྎ", "ྏ", "ྐ", "ྑ", "ྒ", "ྒྷ",
     "ྔ", "ྕ", "ྖ", "ྗ", "ྙ", "ྚ", "ྛ", "ྜ", "ྜྷ", "ྞ", "ྟ", "ྠ",
     "ྡ", "ྡྷ", "ྣ", "ྤ", "ྥ", "ྦ", "ྦྷ", "ྨ", "ྩ", "ྪ", "ྫ", "ྫྷ",
     "ྭ", "ྮ", "ྯ", "ྰ", "ྱ", "ྲ", "ླ", "ྴ", "ྵ", "ྶ", "ྷ", "ྸ",
     "ྐྵ", "ྺ", "ྻ", "ྼ", "࿆", "U+102D", "U+102E", "U+102F", "U+1030", "U+1032", "U+1033", "U+1034",
     "U+1035", "U+1036", "U+1037", "U+1039", "U+103A", "U+103D", "U+103E", "U+1058", "U+1059", "U+105E", "U+105F", "U+1060",
     "U+1071", "U+1072", "U+1073", "U+1074", "ႂ", "ႅ", "ႆ", "ႍ", "ႝ", "ჼ", "U+135D", "U+135E",
     "U+135F", "U+1712", "U+1713", "U+1714", "U+1732", "U+1733", "U+1752", "U+1753", "U+1772", "U+1773", "឴", "឵",
     "ិ", "ី", "ឹ", "ឺ", "ុ", "ូ", "ួ", "ំ", "៉", "៊", "់", "៌",
     "៍", "៎", "៏", "័", "៑", "្", "៓", "ៗ", "៝", "U+180B", "U+180C", "U+180D",
     "U+180E", "U+180F", "U+1843", "ᢅ", "ᢆ", "ᢩ", "U+1920", "U+1921", "U+1922", "U+1927", "U+1928", "U+1932",
     "U+1939", "U+193A", "U+193B", "U+1A17", "U+1A18", "U+1A1B", "U+1A56", "U+1A58", "U+1A59", "U+1A5A", "U+1A5B", "U+1A5C",
     "U+1A5D", "U+1A5E", "U+1A60", "U+1A62", "U+1A65", "U+1A66", "U+1A67", "U+1A68", "U+1A69", "U+1A6A", "U+1A6B", "U+1A6C",
     "U+1A73", "U+1A74", "U+1A75", "U+1A76", "U+1A77", "U+1A78", "U+1A79", "U+1A7A", "U+1A7B", "U+1A7C", "U+1A7F", "ᪧ",
     "᪰", "᪱", "᪲", "᪳", "᪴", "᪵", "᪶", "᪷", "᪸", "᪹", "᪺", "᪻",
     "᪼", "᪽", "᪾", "ᪿ", "ᫀ", "᫁", "᫂", "᫃", "᫄", "᫅", "᫆", "᫇",
     "᫈", "᫉", "᫊", "᫋", "ᫌ", "ᫍ", "ᫎ", "᫏", "᫐", "᫑", "᫒", "᫓",
     "᫔", "᫕", "᫖", "᫗", "᫘", "᫙", "᫚", "᫛", "᫜", "᫝", "᫠", "᫡",
     "᫢", "᫣", "᫤", "᫥", "᫦", "᫧", "᫨", "᫩", "᫪", "᫫", "U+1B00", "U+1B01",
     "U+1B02", "U+1B03", "U+1B34", "U+1B36", "U+1B37", "U+1B38", "U+1B39", "U+1B3A", "U+1B3C", "U+1B42", "U+1B6B", "U+1B6C",
     "U+1B6D", "U+1B6E", "U+1B6F", "U+1B70", "U+1B71", "U+1B72", "U+1B73", "ᮀ", "ᮁ", "ᮢ", "ᮣ", "ᮤ",
     "ᮥ", "ᮨ", "ᮩ", "᮫", "ᮬ", "ᮭ", "᯦", "ᯨ", "ᯩ", "ᯭ", "ᯯ", "ᯰ",
     "ᯱ", "U+1C2C", "U+1C2D", "U+1C2E", "U+1C2F", "U+1C30", "U+1C31", "U+1C32", "U+1C33", "U+1C36", "U+1C37", "U+1C78",
     "U+1C79", "U+1C7A", "U+1C7B", "U+1C7C", "U+1C7D", "᳐", "᳑", "᳒", "᳔", "᳕", "᳖", "᳗",
     "᳘", "᳙", "᳚", "᳛", "᳜", "᳝", "᳞", "᳟", "᳠", "᳢", "᳣", "᳤",
     "᳥", "᳦", "᳧", "᳨", "᳭", "᳴", "᳸", "᳹", "U+1D2C", "U+1D2D", "U+1D2E", "U+1D2F",
     "U+1D30", "U+1D31", "U+1D32", "U+1D33", "U+1D34", "U+1D35", "U+1D36", "U+1D37", "U+1D38", "U+1D39", "U+1D3A", "U+1D3B",
     "U+1D3C", "U+1D3D", "U+1D3E", "U+1D3F", "U+1D40", "U+1D41", "U+1D42", "U+1D43", "U+1D44", "U+1D45", "U+1D46", "U+1D47",
     "U+1D48", "U+1D49", "U+1D4A", "U+1D4B", "U+1D4C", "U+1D4D", "U+1D4E", "U+1D4F", "U+1D50", "U+1D51", "U+1D52", "U+1D53",
     "U+1D54", "U+1D55", "U+1D56", "U+1D57", "U+1D58", "U+1D59", "U+1D5A", "U+1D5B", "U+1D5C", "U+1D5D", "U+1D5E", "U+1D5F",
     "U+1D60", "U+1D61", "U+1D62", "U+1D63", "U+1D64", "U+1D65", "U+1D66", "U+1D67", "U+1D68", "U+1D69", "U+1D6A", "U+1D78",
     "ᶛ", "ᶜ", "ᶝ", "ᶞ", "ᶟ", "ᶠ", "ᶡ", "ᶢ", "ᶣ", "ᶤ", "ᶥ", "ᶦ",
     "ᶧ", "ᶨ", "ᶩ", "ᶪ", "ᶫ", "ᶬ", "ᶭ", "ᶮ", "ᶯ", "ᶰ", "ᶱ", "ᶲ",
     "ᶳ", "ᶴ", "ᶵ", "ᶶ", "ᶷ", "ᶸ", "ᶹ", "ᶺ", "ᶻ", "ᶼ", "ᶽ", "ᶾ",
     "ᶿ", "᷀", "᷁", "᷂", "᷃", "᷄", "᷅", "᷆", "᷇", "᷈", "᷉", "᷊",
     "᷋", "᷌", "᷍", "᷎", "᷏", "᷐", "᷑", "᷒", "ᷓ", "ᷔ", "ᷕ", "ᷖ",
     "ᷗ", "ᷘ", "ᷙ", "ᷚ", "ᷛ", "ᷜ", "ᷝ", "ᷞ", "ᷟ", "ᷠ", "ᷡ", "ᷢ",
     "ᷣ", "ᷤ", "ᷥ", "ᷦ", "ᷧ", "ᷨ", "ᷩ", "ᷪ", "ᷫ", "ᷬ", "ᷭ", "ᷮ",
     "ᷯ", "ᷰ", "ᷱ", "ᷲ", "ᷳ", "ᷴ", "᷵", "᷶", "᷷", "᷸", "᷹", "᷺",
     "᷻", "᷼", "᷽", "᷾", "᷿", "᾽", "᾿", "῀", "῁", "῍", "῎", "῏",
     "῝", "῞", "῟", "῭", "΅", "`", "´", "῾", "U+200B", "U+200C", "U+200D", "U+200E",
     "U+200F", "U+2018", "U+2019", "U+2024", "U+2027", "U+202A", "U+202B", "U+202C", "U+202D", "U+202E", "U+2060", "U+2061",
     "U+2062", "U+2063", "U+2064", "U+2066", "U+2067", "U+2068", "U+2069", "U+206A", "U+206B", "U+206C", "U+206D", "U+206E",
     "U+206F", "U+2071", "U+207F", "ₐ", "ₑ", "ₒ", "ₓ", "ₔ", "ₕ", "ₖ", "ₗ", "ₘ",
     "ₙ", "ₚ", "ₛ", "ₜ", "⃐", "⃑", "⃒", "⃓", "⃔", "⃕", "⃖", "⃗",
     "⃘", "⃙", "⃚", "⃛", "⃜", "⃝", "⃞", "⃟", "⃠", "⃡", "⃢", "⃣",
     "⃤", "⃥", "⃦", "⃧", "⃨", "⃩", "⃪", "⃫", "⃬", "⃭", "⃮", "⃯",
     "⃰", "U+2C7C", "U+2C7D", "⳯", "⳰", "⳱", "U+2D6F", "U+2D7F", "ⷠ", "ⷡ", "ⷢ", "ⷣ",
     "ⷤ", "ⷥ", "ⷦ", "ⷧ", "ⷨ", "ⷩ", "ⷪ", "ⷫ", "ⷬ", "ⷭ", "ⷮ", "ⷯ",
     "ⷰ", "ⷱ", "ⷲ", "ⷳ", "ⷴ", "ⷵ", "ⷶ", "ⷷ", "ⷸ", "ⷹ", "ⷺ", "ⷻ",
     "ⷼ", "ⷽ", "ⷾ", "ⷿ", "U+2E2F", "U+3005", "U+302A", "U+302B", "U+302C", "U+302D", "U+3031", "U+3032",
     "U+3033", "U+3034", "U+3035", "U+303B", "゙", "゚", "゛", "゜", "ゝ", "ゞ", "ー", "ヽ",
     "ヾ", "U+A015", "ꓸ", "ꓹ", "ꓺ", "ꓻ", "ꓼ", "ꓽ", "U+A60C", "U+A66F", "U+A670", "U+A671",
     "U+A672", "U+A674", "U+A675", "U+A676", "U+A677", "U+A678", "U+A679", "U+A67A", "U+A67B", "U+A67C", "U+A67D", "U+A67F",
     "ꚜ", "ꚝ", "ꚞ", "ꚟ", "꛰", "꛱", "U+A700", "U+A701", "U+A702", "U+A703", "U+A704", "U+A705",
     "U+A706", "U+A707", "U+A708", "U+A709", "U+A70A", "U+A70B", "U+A70C", "U+A70D", "U+A70E", "U+A70F", "U+A710", "U+A711",
     "U+A712", "U+A713", "U+A714", "U+A715", "U+A716", "U+A717", "U+A718", "U+A719", "U+A71A", "U+A71B", "U+A71C", "U+A71D",
     "U+A71E", "U+A71F", "U+A720", "U+A721", "U+A770", "ꞈ", "꞉", "꞊", "꟱", "ꟲ", "ꟳ", "ꟴ",
     "ꟸ", "ꟹ", "U+A802", "U+A806", "U+A80B", "U+A825", "U+A826", "U+A82C", "꣄", "ꣅ", "꣠", "꣡",
     "꣢", "꣣", "꣤", "꣥", "꣦", "꣧", "꣨", "꣩", "꣪", "꣫", "꣬", "꣭",
     "꣮", "꣯", "꣰", "꣱", "ꣿ", "U+A926", "U+A927", "U+A928", "U+A929", "U+A92A", "U+A92B", "U+A92C",
     "U+A92D", "U+A947", "U+A948", "U+A949", "U+A94A", "U+A94B", "U+A94C", "U+A94D", "U+A94E", "U+A94F", "U+A950", "U+A951",
     "ꦀ", "ꦁ", "ꦂ", "꦳", "ꦶ", "ꦷ", "ꦸ", "ꦹ", "ꦼ", "ꦽ", "ꧏ", "ꧥ",
     "ꧦ", "U+AA29", "U+AA2A", "U+AA2B", "U+AA2C", "U+AA2D", "U+AA2E", "U+AA31", "U+AA32", "U+AA35", "U+AA36", "U+AA43",
     "U+AA4C", "U+AA70", "U+AA7C", "ꪰ", "ꪲ", "ꪳ", "ꪴ", "ꪷ", "ꪸ", "ꪾ", "꪿", "꫁",
     "ꫝ", "ꫬ", "ꫭ", "ꫳ", "ꫴ", "꫶", "U+AB5B", "U+AB5C", "U+AB5D", "U+AB5E", "U+AB5F", "U+AB69",
     "U+AB6A", "U+AB6B", "ꯥ", "ꯨ", "꯭", "U+FB1E", "﮲", "﮳", "﮴", "﮵", "﮶", "﮷",
     "﮸", "﮹", "﮺", "﮻", "﮼", "﮽", "﮾", "﮿", "﯀", "﯁", "﯂", "U+FE00",
     "U+FE01", "U+FE02", "U+FE03", "U+FE04", "U+FE05", "U+FE06", "U+FE07", "U+FE08", "U+FE09", "U+FE0A", "U+FE0B", "U+FE0C",
     "U+FE0D", "U+FE0E", "U+FE0F", "U+FE13", "U+FE20", "U+FE21", "U+FE22", "U+FE23", "U+FE24", "U+FE25", "U+FE26", "U+FE27",
     "U+FE28", "U+FE29", "U+FE2A", "U+FE2B", "U+FE2C", "U+FE2D", "U+FE2E", "U+FE2F", "U+FE52", "U+FE55", "﻿", "U+FF07",
     "U+FF0E", "U+FF1A", "U+FF3E", "U+FF40", "U+FF70", "ﾞ", "ﾟ", "￣", "￹", "￺", "￻"
    }

\* the surrogate pairs with the property Cased
AstralCased ==
    {
     <<"U+D801", "U+DC00">>, <<"U+D801", "U+DC01">>, <<"U+D801", "U+DC02">>, <<"U+D801", "U+DC03">>,
     <<"U+D801", "U+DC04">>, <<"U+D801", "U+DC05">>, <<"U+D801", "U+DC06">>, <<"U+D801", "U+DC07">>,
     <<"U+D801", "U+DC08">>, <<"U+D801", "U+DC09">>, <<"U+D801", "U+DC0A">>, <<"U+D801", "U+DC0B">>,
     <<"U+D801", "U+DC0C">>, <<"U+D801", "U+DC0D">>, <<"U+D801", "U+DC0E">>, <<"U+D801", "U+DC0F">>,
     <<"U+D801", "U+DC10">>, <<"U+D801", "U+DC11">>, <<"U+D801", "U+DC12">>, <<"U+D801", "U+DC13">>,
     <<"U+D801", "U+DC14">>, <<"U+D801", "U+DC15">>, <<"U+D801", "U+DC16">>, <<"U+D801", "U+DC17">>,
     <<"U+D801", "U+DC18">>, <<"U+D801", "U+DC19">>, <<"U+D801", "U+DC1A">>, <<"U+D801", "U+DC1B">>,
     <<"U+D801", "U+DC1C">>, <<"U+D801", "U+DC1D">>, <<"U+D801", "U+DC1E">>, <<"U+D801", "U+DC1F">>,
     <<"U+D801", "U+DC20">>, <<"U+D801", "U+DC21">>, <<"U+D801", "U+DC22">>, <<"U+D801", "U+DC23">>,
     <<"U+D801", "U+DC24">>, <<"U+D801", "U+DC25">>, <<"U+D801", "U+DC26">>, <<"U+D801", "U+DC27">>,
     <<"U+D801", "U+DC28">>, <<"U+D801", "U+DC29">>, <<"U+D801", "U+DC2A">>, <<"U+D801", "U+DC2B">>,
     <<"U+D801", "U+DC2C">>, <<"U+D801", "U+DC2D">>, <<"U+D801", "U+DC2E">>, <<"U+D801", "U+DC2F">>,
     <<"U+D801", "U+DC30">>, <<"U+D801", "U+DC31">>, <<"U+D801", "U+DC32">>, <<"U+D801", "U+DC33">>,
     <<"U+D801", "U+DC34">>, <<"U+D801", "U+DC35">>, <<"U+D801", "U+DC36">>, <<"U+D801", "U+DC37">>,
     <<"U+D801", "U+DC38">>, <<"U+D801", "U+DC39">>, <<"U+D801", "U+DC3A">>, <<"U+D801", "U+DC3B">>,
     <<"U+D801", "U+DC3C">>, <<"U+D801", "U+DC3D">>, <<"U+D801", "U+DC3E">>, <<"U+D801", "U+DC3F">>,
     <<"U+D801", "U+DC40">>, <<"U+D801", "U+DC41">>, <<"U+D801", "U+DC42">>, <<"U+D801", "U+DC43">>,
     <<"U+D801", "U+DC44">>, <<"U+D801", "U+DC45">>, <<"U+D801", "U+DC46">>, <<"U+D801", "U+DC47">>,
     <<"U+D801", "U+DC48">>, <<"U+D801", "U+DC49">>, <<"U+D801", "U+DC4A">>, <<"U+D801", "U+DC4B">>,
     <<"U+D801", "U+DC4C">>, <<"U+D801", "U+DC4D">>, <<"U+D801", "U+DC4E">>, <<"U+D801", "U+DC4F">>,
     <<"U+D801", "U+DCB0">>, <<"U+D801", "U+DCB1">>, <<"U+D801", "U+DCB2">>, <<"U+D801", "U+DCB3">>,
     <<"U+D801", "U+DCB4">>, <<"U+D801", "U+DCB5">>, <<"U+D801", "U+DCB6">>, <<"U+D801", "U+DCB7">>,
     <<"U+D801", "U+DCB8">>, <<"U+D801", "U+DCB9">>, <<"U+D801", "U+DCBA">>, <<"U+D801", "U+DCBB">>,
     <<"U+D801", "U+DCBC">>, <<"U+D801", "U+DCBD">>, <<"U+D801", "U+DCBE">>, <<"U+D801", "U+DCBF">>,
     <<"U+D801", "U+DCC0">>, <<"U+D801", "U+DCC1">>, <<"U+D801", "U+DCC2">>, <<"U+D801", "U+DCC3">>,
     <<"U+D801", "U+DCC4">>, <<"U+D801", "U+DCC5">>, <<"U+D801", "U+DCC6">>, <<"U+D801", "U+DCC7">>,
     <<"U+D801", "U+DCC8">>, <<"U+D801", "U+DCC9">>, <<"U+D801", "U+DCCA">>, <<"U+D801", "U+DCCB">>,
     <<"U+D801", "U+DCCC">>, <<"U+D801", "U+DCCD">>, <<"U+D801", "U+DCCE">>, <<"U+D801", "U+DCCF">>,
     <<"U+D801", "U+DCD0">>, <<"U+D801", "U+DCD1">>, <<"U+D801", "U+DCD2">>, <<"U+D801", "U+DCD3">>,
     <<"U+D801", "U+DCD8">>, <<"U+D801", "U+DCD9">>, <<"U+D801", "U+DCDA">>, <<"U+D801", "U+DCDB">>,
     <<"U+D801", "U+DCDC">>, <<"U+D801", "U+DCDD">>, <<"U+D801", "U+DCDE">>, <<"U+D801", "U+DCDF">>,
     <<"U+D801", "U+DCE0">>, <<"U+D801", "U+DCE1">>, <<"U+D801", "U+DCE2">>, <<"U+D801", "U+DCE3">>,
     <<"U+D801", "U+DCE4">>, <<"U+D801", "U+DCE5">>, <<"U+D801", "U+DCE6">>, <<"U+D801", "U+DCE7">>,
     <<"U+D801", "U+DCE8">>, <<"U+D801", "U+DCE9">>, <<"U+D801", "U+DCEA">>, <<"U+D801", "U+DCEB">>,
     <<"U+D801", "U+DCEC">>, <<"U+D801", "U+DCED">>, <<"U+D801", "U+DCEE">>, <<"U+D801", "U+DCEF">>,
     <<"U+D801", "U+DCF0">>, <<"U+D801", "U+DCF1">>, <<"U+D801", "U+DCF2">>, <<"U+D801", "U+DCF3">>,
     <<"U+D801", "U+DCF4">>, <<"U+D801", "U+DCF5">>, <<"U+D801", "U+DCF6">>, <<"U+D801", "U+DCF7">>,
     <<"U+D801", "U+DCF8">>, <<"U+D801", "U+DCF9">>, <<"U+D801", "U+DCFA">>, <<"U+D801", "U+DCFB">>,
     <<"U+D801", "U+DD70">>, <<"U+D801", "U+DD71">>, <<"U+D801", "U+DD72">>, <<"U+D801", "U+DD73">>,
     <<"U+D801", "U+DD74">>, <<"U+D801", "U+DD75">>, <<"U+D801", "U+DD76">>, <<"U+D801", "U+DD77">>,
     <<"U+D801", "U+DD78">>, <<"U+D801", "U+DD79">>, <<"U+D801", "U+DD7A">>, <<"U+D801", "U+DD7C">>,
     <<"U+D801", "U+DD7D">>, <<"U+D801", "U+DD7E">>, <<"U+D801", "U+DD7F">>, <<"U+D801", "U+DD80">>,
     <<"U+D801", "U+DD81">>, <<"U+D801", "U+DD82">>, <<"U+D801", "U+DD83">>, <<"U+D801", "U+DD84">>,
     <<"U+D801", "U+DD85">>, <<"U+D801", "U+DD86">>, <<"U+D801", "U+DD87">>, <<"U+D801", "U+DD88">>,
     <<"U+D801", "U+DD89">>, <<"U+D801", "U+DD8A">>, <<"U+D801", "U+DD8C">>, <<"U+D801", "U+DD8D">>,
     <<"U+D801", "U+DD8E">>, <<"U+D801", "U+DD8F">>, <<"U+D801", "U+DD90">>, <<"U+D801", "U+DD91">>,
     <<"U+D801", "U+DD92">>, <<"U+D801", "U+DD94">>, <<"U+D801", "U+DD95">>, <<"U+D801", "U+DD97">>,
     <<"U+D801", "U+DD98">>, <<"U+D801", "U+DD99">>, <<"U+D801", "U+DD9A">>, <<"U+D801", "U+DD9B">>,
     <<"U+D801", "U+DD9C">>, <<"U+D801", "U+DD9D">>, <<"U+D801", "U+DD9E">>, <<"U+D801", "U+DD9F">>,
     <<"U+D801", "U+DDA0">>, <<"U+D801", "U+DDA1">>, <<"U+D801", "U+DDA3">>, <<"U+D801", "U+DDA4">>,
     <<"U+D801", "U+DDA5">>, <<"U+D801", "U+DDA6">>, <<"U+D801", "U+DDA7">>, <<"U+D801", "U+DDA8">>,
     <<"U+D801", "U+DDA9">>, <<"U+D801", "U+DDAA">>, <<"U+D801", "U+DDAB">>, <<"U+D801", "U+DDAC">>,
     <<"U+D801", "U+DDAD">>, <<"U+D801", "U+DDAE">>, <<"U+D801", "U+DDAF">>, <<"U+D801", "U+DDB0">>,
     <<"U+D801", "U+DDB1">>, <<"U+D801", "U+DDB3">>, <<"U+D801", "U+DDB4">>, <<"U+D801", "U+DDB5">>,
     <<"U+D801", "U+DDB6">>, <<"U+D801", "U+DDB7">>, <<"U+D801", "U+DDB8">>, <<"U+D801", "U+DDB9">>,
     <<"U+D801", "U+DDBB">>, <<"U+D801", "U+DDBC">>, <<"U+D801", "U+DF80">>, <<"U+D801", "U+DF83">>,
     <<"U+D801", "U+DF84">>, <<"U+D801", "U+DF85">>, <<"U+D801", "U+DF87">>, <<"U+D801", "U+DF88">>,
     <<"U+D801", "U+DF89">>, <<"U+D801", "U+DF8A">>, <<"U+D801", "U+DF8B">>, <<"U+D801", "U+DF8C">>,
     <<"U+D801", "U+DF8D">>, <<"U+D801", "U+DF8E">>, <<"U+D801", "U+DF8F">>, <<"U+D801", "U+DF90">>,
     <<"U+D801", "U+DF91">>, <<"U+D801", "U+DF92">>, <<"U+D801", "U+DF93">>, <<"U+D801", "U+DF94">>,
     <<"U+D801", "U+DF95">>, <<"U+D801", "U+DF96">>, <<"U+D801", "U+DF97">>, <<"U+D801", "U+DF98">>,
     <<"U+D801", "U+DF99">>, <<"U+D801", "U+DF9A">>, <<"U+D801", "U+DF9B">>, <<"U+D801", "U+DF9C">>,
     <<"U+D801", "U+DF9D">>, <<"U+D801", "U+DF9E">>, <<"U+D801", "U+DF9F">>, <<"U+D801", "U+DFA0">>,
     <<"U+D801", "U+DFA1">>, <<"U+D801", "U+DFA2">>, <<"U+D801", "U+DFA3">>, <<"U+D801", "U+DFA4">>,
     <<"U+D801", "U+DFA5">>, <<"U+D801", "U+DFA6">>, <<"U+D801", "U+DFA7">>, <<"U+D801", "U+DFA8">>,
     <<"U+D801", "U+DFA9">>, <<"U+D801", "U+DFAA">>, <<"U+D801", "U+DFAB">>, <<"U+D801", "U+DFAC">>,
     <<"U+D801", "U+DFAD">>, <<"U+D801", "U+DFAE">>, <<"U+D801", "U+DFAF">>, <<"U+D801", "U+DFB0">>,
     <<"U+D801", "U+DFB2">>, <<"U+D801", "U+DFB3">>, <<"U+D801", "U+DFB4">>, <<"U+D801", "U+DFB5">>,
     <<"U+D801", "U+DFB6">>, <<"U+D801", "U+DFB7">>, <<"U+D801", "U+DFB8">>, <<"U+D801", "U+DFB9">>,
     <<"U+D801", "U+DFBA">>, <<"U+D803", "U+DC80">>, <<"U+D803", "U+DC81">>, <<"U+D803", "U+DC82">>,
     <<"U+D803", "U+DC83">>, <<"U+D803", "U+DC84">>, <<"U+D803", "U+DC85">>, <<"U+D803", "U+DC86">>,
     <<"U+D803", "U+DC87">>, <<"U+D803", "U+DC88">>, <<"U+D803", "U+DC89">>, <<"U+D803", "U+DC8A">>,
     <<"U+D803", "U+DC8B">>, <<"U+D803", "U+DC8C">>, <<"U+D803", "U+DC8D">>, <<"U+D803", "U+DC8E">>,
     <<"U+D803", "U+DC8F">>, <<"U+D803", "U+DC90">>, <<"U+D803", "U+DC91">>, <<"U+D803", "U+DC92">>,
     <<"U+D803", "U+DC93">>, <<"U+D803", "U+DC94">>, <<"U+D803", "U+DC95">>, <<"U+D803", "U+DC96">>,
     <<"U+D803", "U+DC97">>, <<"U+D803", "U+DC98">>, <<"U+D803", "U+DC99">>, <<"U+D803", "U+DC9A">>,
     <<"U+D803", "U+DC9B">>, <<"U+D803", "U+DC9C">>, <<"U+D803", "U+DC9D">>, <<"U+D803", "U+DC9E">>,
     <<"U+D803", "U+DC9F">>, <<"U+D803", "U+DCA0">>, <<"U+D803", "U+DCA1">>, <<"U+D803", "U+DCA2">>,
     <<"U+D803", "U+DCA3">>, <<"U+D803", "U+DCA4">>, <<"U+D803", "U+DCA5">>, <<"U+D803", "U+DCA6">>,
     <<"U+D803", "U+DCA7">>, <<"U+D803", "U+DCA8">>, <<"U+D803", "U+DCA9">>, <<"U+D803", "U+DCAA">>,
     <<"U+D803", "U+DCAB">>, <<"U+D803", "U+DCAC">>, <<"U+D803", "U+DCAD">>, <<"U+D803", "U+DCAE">>,
     <<"U+D803", "U+DCAF">>, <<"U+D803", "U+DCB0">>, <<"U+D803", "U+DCB1">>, <<"U+D803", "U+DCB2">>,
     <<"U+D803", "U+DCC0">>, <<"U+D803", "U+DCC1">>, <<"U+D803", "U+DCC2">>, <<"U+D803", "U+DCC3">>,
     <<"U+D803", "U+DCC4">>, <<"U+D803", "U+DCC5">>, <<"U+D803", "U+DCC6">>, <<"U+D803", "U+DCC7">>,
     <<"U+D803", "U+DCC8">>, <<"U+D803", "U+DCC9">>, <<"U+D803", "U+DCCA">>, <<"U+D803", "U+DCCB">>,
     <<"U+D803", "U+DCCC">>, <<"U+D803", "U+DCCD">>, <<"U+D803", "U+DCCE">>, <<"U+D803", "U+DCCF">>,
     <<"U+D803", "U+DCD0">>, <<"U+D803", "U+DCD1">>, <<"U+D803", "U+DCD2">>, <<"U+D803", "U+DCD3">>,
     <<"U+D803", "U+DCD4">>, <<"U+D803", "U+DCD5">>, <<"U+D803", "U+DCD6">>, <<"U+D803", "U+DCD7">>,
     <<"U+D803", "U+DCD8">>, <<"U+D803", "U+DCD9">>, <<"U+D803", "U+DCDA">>, <<"U+D803", "U+DCDB">>,
     <<"U+D803", "U+DCDC">>, <<"U+D803", "U+DCDD">>, <<"U+D803", "U+DCDE">>, <<"U+D803", "U+DCDF">>,
     <<"U+D803", "U+DCE0">>, <<"U+D803", "U+DCE1">>, <<"U+D803", "U+DCE2">>, <<"U+D803", "U+DCE3">>,
     <<"U+D803", "U+DCE4">>, <<"U+D803", "U+DCE5">>, <<"U+D803", "U+DCE6">>, <<"U+D803", "U+DCE7">>,
     <<"U+D803", "U+DCE8">>, <<"U+D803", "U+DCE9">>, <<"U+D803", "U+DCEA">>, <<"U+D803", "U+DCEB">>,
     <<"U+D803", "U+DCEC">>, <<"U+D803", "U+DCED">>, <<"U+D803", "U+DCEE">>, <<"U+D803", "U+DCEF">>,
     <<"U+D803", "U+DCF0">>, <<"U+D803", "U+DCF1">>, <<"U+D803", "U+DCF2">>, <<"U+D803", "U+DD50">>,
     <<"U+D803", "U+DD51">>, <<"U+D803", "U+DD52">>, <<"U+D803", "U+DD53">>, <<"U+D803", "U+DD54">>,
     <<"U+D803", "U+DD55">>, <<"U+D803", "U+DD56">>, <<"U+D803", "U+DD57">>, <<"U+D803", "U+DD58">>,
     <<"U+D803", "U+DD59">>, <<"U+D803", "U+DD5A">>, <<"U+D803", "U+DD5B">>, <<"U+D803", "U+DD5C">>,
     <<"U+D803", "U+DD5D">>, <<"U+D803", "U+DD5E">>, <<"U+D803", "U+DD5F">>, <<"U+D803", "U+DD60">>,
     <<"U+D803", "U+DD61">>, <<"U+D803", "U+DD62">>, <<"U+D803", "U+DD63">>, <<"U+D803", "U+DD64">>,
     <<"U+D803", "U+DD65">>, <<"U+D803", "U+DD70">>, <<"U+D803", "U+DD71">>, <<"U+D803", "U+DD72">>,
     <<"U+D803", "U+DD73">>, <<"U+D803", "U+DD74">>, <<"U+D803", "U+DD75">>, <<"U+D803", "U+DD76">>,
     <<"U+D803", "U+DD77">>, <<"U+D803", "U+DD78">>, <<"U+D803", "U+DD79">>, <<"U+D803", "U+DD7A">>,
     <<"U+D803", "U+DD7B">>, <<"U+D803", "U+DD7C">>, <<"U+D803", "U+DD7D">>, <<"U+D803", "U+DD7E">>,
     <<"U+D803", "U+DD7F">>, <<"U+D803", "U+DD80">>, <<"U+D803", "U+DD81">>, <<"U+D803", "U+DD82">>,
     <<"U+D803", "U+DD83">>, <<"U+D803", "U+DD84">>, <<"U+D803", "U+DD85">>, <<"U+D806", "U+DCA0">>,
     <<"U+D806", "U+DCA1">>, <<"U+D806", "U+DCA2">>, <<"U+D806", "U+DCA3">>, <<"U+D806", "U+DCA4">>,
     <<"U+D806", "U+DCA5">>, <<"U+D806", "U+DCA6">>, <<"U+D806", "U+DCA7">>, <<"U+D806", "U+DCA8">>,
     <<"U+D806", "U+DCA9">>, <<"U+D806", "U+DCAA">>, <<"U+D806", "U+DCAB">>, <<"U+D806", "U+DCAC">>,
     <<"U+D806", "U+DCAD">>, <<"U+D806", "U+DCAE">>, <<"U+D806", "U+DCAF">>, <<"U+D806", "U+DCB0">>,
     <<"U+D806", "U+DCB1">>, <<"U+D806", "U+DCB2">>, <<"U+D806", "U+DCB3">>, <<"U+D806", "U+DCB4">>,
     <<"U+D806", "U+DCB5">>, <<"U+D806", "U+DCB6">>, <<"U+D806", "U+DCB7">>, <<"U+D806", "U+DCB8">>,
     <<"U+D806", "U+DCB9">>, <<"U+D806", "U+DCBA">>, <<"U+D806", "U+DCBB">>, <<"U+D806", "U+DCBC">>,
     <<"U+D806", "U+DCBD">>, <<"U+D806", "U+DCBE">>, <<"U+D806", "U+DCBF">>, <<"U+D806", "U+DCC0">>,
     <<"U+D806", "U+DCC1">>, <<"U+D806", "U+DCC2">>, <<"U+D806", "U+DCC3">>, <<"U+D806", "U+DCC4">>,
     <<"U+D806", "U+DCC5">>, <<"U+D806", "U+DCC6">>, <<"U+D806", "U+DCC7">>, <<"U+D806", "U+DCC8">>,
     <<"U+D806", "U+DCC9">>, <<"U+D806", "U+DCCA">>, <<"U+D806", "U+DCCB">>, <<"U+D806", "U+DCCC">>,
     <<"U+D806", "U+DCCD">>, <<"U+D806", "U+DCCE">>, <<"U+D806", "U+DCCF">>, <<"U+D806", "U+DCD0">>,
     <<"U+D806", "U+DCD1">>, <<"U+D806", "U+DCD2">>, <<"U+D806", "U+DCD3">>, <<"U+D806", "U+DCD4">>,
     <<"U+D806", "U+DCD5">>, <<"U+D806", "U+DCD6">>, <<"U+D806", "U+DCD7">>, <<"U+D806", "U+DCD8">>,
     <<"U+D806", "U+DCD9">>, <<"U+D806", "U+DCDA">>, <<"U+D806", "U+DCDB">>, <<"U+D806", "U+DCDC">>,
     <<"U+D806", "U+DCDD">>, <<"U+D806", "U+DCDE">>, <<"U+D806", "U+DCDF">>, <<"U+D81B", "U+DE40">>,
     <<"U+D81B", "U+DE41">>, <<"U+D81B", "U+DE42">>, <<"U+D81B", "U+DE43">>, <<"U+D81B", "U+DE44">>,
     <<"U+D81B", "U+DE45">>, <<"U+D81B", "U+DE46">>, <<"U+D81B", "U+DE47">>, <<"U+D81B", "U+DE48">>,
     <<"U+D81B", "U+DE49">>, <<"U+D81B", "U+DE4A">>, <<"U+D81B", "U+DE4B">>, <<"U+D81B", "U+DE4C">>,
     <<"U+D81B", "U+DE4D">>, <<"U+D81B", "U+DE4E">>, <<"U+D81B", "U+DE4F">>, <<"U+D81B", "U+DE50">>,
     <<"U+D81B", "U+DE51">>, <<"U+D81B", "U+DE52">>, <<"U+D81B", "U+DE53">>, <<"U+D81B", "U+DE54">>,
     <<"U+D81B", "U+DE55">>, <<"U+D81B", "U+DE56">>, <<"U+D81B", "U+DE57">>, <<"U+D81B", "U+DE58">>,
     <<"U+D81B", "U+DE59">>, <<"U+D81B", "U+DE5A">>, <<"U+D81B", "U+DE5B">>, <<"U+D81B", "U+DE5C">>,
     <<"U+D81B", "U+DE5D">>, <<"U+D81B", "U+DE5E">>, <<"U+D81B", "U+DE5F">>, <<"U+D81B", "U+DE60">>,
     <<"U+D81B", "U+DE61">>, <<"U+D81B", "U+DE62">>, <<"U+D81B", "U+DE63">>, <<"U+D81B", "U+DE64">>,
     <<"U+D81B", "U+DE65">>, <<"U+D81B", "U+DE66">>, <<"U+D81B", "U+DE67">>, <<"U+D81B", "U+DE68">>,
     <<"U+D81B", "U+DE69">>, <<"U+D81B", "U+DE6A">>, <<"U+D81B", "U+DE6B">>, <<"U+D81B", "U+DE6C">>,
     <<"U+D81B", "U+DE6D">>, <<"U+D81B", "U+DE6E">>, <<"U+D81B", "U+DE6F">>, <<"U+D81B", "U+DE70">>,
     <<"U+D81B", "U+DE71">>, <<"U+D81B", "U+DE72">>, <<"U+D81B", "U+DE73">>, <<"U+D81B", "U+DE74">>,
     <<"U+D81B", "U+DE75">>, <<"U+D81B", "U+DE76">>, <<"U+D81B", "U+DE77">>, <<"U+D81B", "U+DE78">>,
     <<"U+D81B", "U+DE79">>, <<"U+D81B", "U+DE7A">>, <<"U+D81B", "U+DE7B">>, <<"U+D81B", "U+DE7C">>,
     <<"U+D81B", "U+DE7D">>, <<"U+D81B", "U+DE7E">>, <<"U+D81B", "U+DE7F">>, <<"U+D81B", "U+DEA0">>,
     <<"U+D81B", "U+DEA1">>, <<"U+D81B", "U+DEA2">>, <<"U+D81B", "U+DEA3">>, <<"U+D81B", "U+DEA4">>,
     <<"U+D81B", "U+DEA5">>, <<"U+D81B", "U+DEA6">>, <<"U+D81B", "U+DEA7">>, <<"U+D81B", "U+DEA8">>,
     <<"U+D81B", "U+DEA9">>, <<"U+D81B", "U+DEAA">>, <<"U+D81B", "U+DEAB">>, <<"U+D81B", "U+DEAC">>,
     <<"U+D81B", "U+DEAD">>, <<"U+D81B", "U+DEAE">>, <<"U+D81B", "U+DEAF">>, <<"U+D81B", "U+DEB0">>,
     <<"U+D81B", "U+DEB1">>, <<"U+D81B", "U+DEB2">>, <<"U+D81B", "U+DEB3">>, <<"U+D81B", "U+DEB4">>,
     <<"U+D81B", "U+DEB5">>, <<"U+D81B", "U+DEB6">>, <<"U+D81B", "U+DEB7">>, <<"U+D81B", "U+DEB8">>,
     <<"U+D81B", "U+DEBB">>, <<"U+D81B", "U+DEBC">>, <<"U+D81B", "U+DEBD">>, <<"U+D81B", "U+DEBE">>,
     <<"U+D81B", "U+DEBF">>, <<"U+D81B", "U+DEC0">>, <<"U+D81B", "U+DEC1">>, <<"U+D81B", "U+DEC2">>,
     <<"U+D81B", "U+DEC3">>, <<"U+D81B", "U+DEC4">>, <<"U+D81B", "U+DEC5">>, <<"U+D81B", "U+DEC6">>,
     <<"U+D81B", "U+DEC7">>, <<"U+D81B", "U+DEC8">>, <<"U+D81B", "U+DEC9">>, <<"U+D81B", "U+DECA">>,
     <<"U+D81B", "U+DECB">>, <<"U+D81B", "U+DECC">>, <<"U+D81B", "U+DECD">>, <<"U+D81B", "U+DECE">>,
     <<"U+D81B", "U+DECF">>, <<"U+D81B", "U+DED0">>, <<"U+D81B", "U+DED1">>, <<"U+D81B", "U+DED2">>,
     <<"U+D81B", "U+DED3">>, <<"U+D835", "U+DC00">>, <<"U+D835", "U+DC01">>, <<"U+D835", "U+DC02">>,
     <<"U+D835", "U+DC03">>, <<"U+D835", "U+DC04">>, <<"U+D835", "U+DC05">>, <<"U+D835", "U+DC06">>,
     <<"U+D835", "U+DC07">>, <<"U+D835", "U+DC08">>, <<"U+D835", "U+DC09">>, <<"U+D835", "U+DC0A">>,
     <<"U+D835", "U+DC0B">>, <<"U+D835", "U+DC0C">>, <<"U+D835", "U+DC0D">>, <<"U+D835", "U+DC0E">>,
     <<"U+D835", "U+DC0F">>, <<"U+D835", "U+DC10">>, <<"U+D835", "U+DC11">>, <<"U+D835", "U+DC12">>,
     <<"U+D835", "U+DC13">>, <<"U+D835", "U+DC14">>, <<"U+D835", "U+DC15">>, <<"U+D835", "U+DC16">>,
     <<"U+D835", "U+DC17">>, <<"U+D835", "U+DC18">>, <<"U+D835", "U+DC19">>, <<"U+D835", "U+DC1A">>,
     <<"U+D835", "U+DC1B">>, <<"U+D835", "U+DC1C">>, <<"U+D835", "U+DC1D">>, <<"U+D835", "U+DC1E">>,
     <<"U+D835", "U+DC1F">>, <<"U+D835", "U+DC20">>, <<"U+D835", "U+DC21">>, <<"U+D835", "U+DC22">>,
     <<"U+D835", "U+DC23">>, <<"U+D835", "U+DC24">>, <<"U+D835", "U+DC25">>, <<"U+D835", "U+DC26">>,
     <<"U+D835", "U+DC27">>, <<"U+D835", "U+DC28">>, <<"U+D835", "U+DC29">>, <<"U+D835", "U+DC2A">>,
     <<"U+D835", "U+DC2B">>, <<"U+D835", "U+DC2C">>, <<"U+D835", "U+DC2D">>, <<"U+D835", "U+DC2E">>,
     <<"U+D835", "U+DC2F">>, <<"U+D835", "U+DC30">>, <<"U+D835", "U+DC31">>, <<"U+D835", "U+DC32">>,
     <<"U+D835", "U+DC33">>, <<"U+D835", "U+DC34">>, <<"U+D835", "U+DC35">>, <<"U+D835", "U+DC36">>,
     <<"U+D835", "U+DC37">>, <<"U+D835", "U+DC38">>, <<"U+D835", "U+DC39">>, <<"U+D835", "U+DC3A">>,
     <<"U+D835", "U+DC3B">>, <<"U+D835", "U+DC3C">>, <<"U+D835", "U+DC3D">>, <<"U+D835", "U+DC3E">>,
     <<"U+D835", "U+DC3F">>, <<"U+D835", "U+DC40">>, <<"U+D835", "U+DC41">>, <<"U+D835", "U+DC42">>,
     <<"U+D835", "U+DC43">>, <<"U+D835", "U+DC44">>, <<"U+D835", "U+DC45">>, <<"U+D835", "U+DC46">>,
     <<"U+D835", "U+DC47">>, <<"U+D835", "U+DC48">>, <<"U+D835", "U+DC49">>, <<"U+D835", "U+DC4A">>,
     <<"U+D835", "U+DC4B">>, <<"U+D835", "U+DC4C">>, <<"U+D835", "U+DC4D">>, <<"U+D835", "U+DC4E">>,
     <<"U+D835", "U+DC4F">>, <<"U+D835", "U+DC50">>, <<"U+D835", "U+DC51">>, <<"U+D835", "U+DC52">>,
     <<"U+D835", "U+DC53">>, <<"U+D835", "U+DC54">>, <<"U+D835", "U+DC56">>, <<"U+D835", "U+DC57">>,
     <<"U+D835", "U+DC58">>, <<"U+D835", "U+DC59">>, <<"U+D835", "U+DC5A">>, <<"U+D835", "U+DC5B">>,
     <<"U+D835", "U+DC5C">>, <<"U+D835", "U+DC5D">>, <<"U+D835", "U+DC5E">>, <<"U+D835", "U+DC5F">>,
     <<"U+D835", "U+DC60">>, <<"U+D835", "U+DC61">>, <<"U+D835", "U+DC62">>, <<"U+D835", "U+DC63">>,
     <<"U+D835", "U+DC64">>, <<"U+D835", "U+DC65">>, <<"U+D835", "U+DC66">>, <<"U+D835", "U+DC67">>,
     <<"U+D835", "U+DC68">>, <<"U+D835", "U+DC69">>, <<"U+D835", "U+DC6A">>, <<"U+D835", "U+DC6B">>,
     <<"U+D835", "U+DC6C">>, <<"U+D835", "U+DC6D">>, <<"U+D835", "U+DC6E">>, <<"U+D835", "U+DC6F">>,
     <<"U+D835", "U+DC70">>, <<"U+D835", "U+DC71">>, <<"U+D835", "U+DC72">>, <<"U+D835", "U+DC73">>,
     <<"U+D835", "U+DC74">>, <<"U+D835", "U+DC75">>, <<"U+D835", "U+DC76">>, <<"U+D835", "U+DC77">>,
     <<"U+D835", "U+DC78">>, <<"U+D835", "U+DC79">>, <<"U+D835", "U+DC7A">>, <<"U+D835", "U+DC7B">>,
     <<"U+D835", "U+DC7C">>, <<"U+D835", "U+DC7D">>, <<"U+D835", "U+DC7E">>, <<"U+D835", "U+DC7F">>,
     <<"U+D835", "U+DC80">>, <<"U+D835", "U+DC81">>, <<"U+D835", "U+DC82">>, <<"U+D835", "U+DC83">>,
     <<"U+D835", "U+DC84">>, <<"U+D835", "U+DC85">>, <<"U+D835", "U+DC86">>, <<"U+D835", "U+DC87">>,
     <<"U+D835", "U+DC88">>, <<"U+D835", "U+DC89">>, <<"U+D835", "U+DC8A">>, <<"U+D835", "U+DC8B">>,
     <<"U+D835", "U+DC8C">>, <<"U+D835", "U+DC8D">>, <<"U+D835", "U+DC8E">>, <<"U+D835", "U+DC8F">>,
     <<"U+D835", "U+DC90">>, <<"U+D835", "U+DC91">>, <<"U+D835", "U+DC92">>, <<"U+D835", "U+DC93">>,
     <<"U+D835", "U+DC94">>, <<"U+D835", "U+DC95">>, <<"U+D835", "U+DC96">>, <<"U+D835", "U+DC97">>,
     <<"U+D835", "U+DC98">>, <<"U+D835", "U+DC99">>, <<"U+D835", "U+DC9A">>, <<"U+D835", "U+DC9B">>,
     <<"U+D835", "U+DC9C">>, <<"U+D835", "U+DC9E">>, <<"U+D835", "U+DC9F">>, <<"U+D835", "U+DCA2">>,
     <<"U+D835", "U+DCA5">>, <<"U+D835", "U+DCA6">>, <<"U+D835", "U+DCA9">>, <<"U+D835", "U+DCAA">>,
     <<"U+D835", "U+DCAB">>, <<"U+D835", "U+DCAC">>, <<"U+D835", "U+DCAE">>, <<"U+D835", "U+DCAF">>,
     <<"U+D835", "U+DCB0">>, <<"U+D835", "U+DCB1">>, <<"U+D835", "U+DCB2">>, <<"U+D835", "U+DCB3">>,
     <<"U+D835", "U+DCB4">>, <<"U+D835", "U+DCB5">>, <<"U+D835", "U+DCB6">>, <<"U+D835", "U+DCB7">>,
     <<"U+D835", "U+DCB8">>, <<"U+D835", "U+DCB9">>, <<"U+D835", "U+DCBB">>, <<"U+D835", "U+DCBD">>,
     <<"U+D835", "U+DCBE">>, <<"U+D835", "U+DCBF">>, <<"U+D835", "U+DCC0">>, <<"U+D835", "U+DCC1">>,
     <<"U+D835", "U+DCC2">>, <<"U+D835", "U+DCC3">>, <<"U+D835", "U+DCC5">>, <<"U+D835", "U+DCC6">>,
     <<"U+D835", "U+DCC7">>, <<"U+D835", "U+DCC8">>, <<"U+D835", "U+DCC9">>, <<"U+D835", "U+DCCA">>,
     <<"U+D835", "U+DCCB">>, <<"U+D835", "U+DCCC">>, <<"U+D835", "U+DCCD">>, <<"U+D835", "U+DCCE">>,
     <<"U+D835", "U+DCCF">>, <<"U+D835", "U+DCD0">>, <<"U+D835", "U+DCD1">>, <<"U+D835", "U+DCD2">>,
     <<"U+D835", "U+DCD3">>, <<"U+D835", "U+DCD4">>, <<"U+D835", "U+DCD5">>, <<"U+D835", "U+DCD6">>,
     <<"U+D835", "U+DCD7">>, <<"U+D835", "U+DCD8">>, <<"U+D835", "U+DCD9">>, <<"U+D835", "U+DCDA">>,
     <<"U+D835", "U+DCDB">>, <<"U+D835", "U+DCDC">>, <<"U+D835", "U+DCDD">>, <<"U+D835", "U+DCDE">>,
     <<"U+D835", "U+DCDF">>, <<"U+D835", "U+DCE0">>, <<"U+D835", "U+DCE1">>, <<"U+D835", "U+DCE2">>,
     <<"U+D835", "U+DCE3">>, <<"U+D835", "U+DCE4">>, <<"U+D835", "U+DCE5">>, <<"U+D835", "U+DCE6">>,
     <<"U+D835", "U+DCE7">>, <<"U+D835", "U+DCE8">>, <<"U+D835", "U+DCE9">>, <<"U+D835", "U+DCEA">>,
     <<"U+D835", "U+DCEB">>, <<"U+D835", "U+DCEC">>, <<"U+D835", "U+DCED">>, <<"U+D835", "U+DCEE">>,
     <<"U+D835", "U+DCEF">>, <<"U+D835", "U+DCF0">>, <<"U+D835", "U+DCF1">>, <<"U+D835", "U+DCF2">>,
     <<"U+D835", "U+DCF3">>, <<"U+D835", "U+DCF4">>, <<"U+D835", "U+DCF5">>, <<"U+D835", "U+DCF6">>,
     <<"U+D835", "U+DCF7">>, <<"U+D835", "U+DCF8">>, <<"U+D835", "U+DCF9">>, <<"U+D835", "U+DCFA">>,
     <<"U+D835", "U+DCFB">>, <<"U+D835", "U+DCFC">>, <<"U+D835", "U+DCFD">>, <<"U+D835", "U+DCFE">>,
     <<"U+D835", "U+DCFF">>, <<"U+D835", "U+DD00">>, <<"U+D835", "U+DD01">>, <<"U+D835", "U+DD02">>,
     <<"U+D835", "U+DD03">>, <<"U+D835", "U+DD04">>, <<"U+D835", "U+DD05">>, <<"U+D835", "U+DD07">>,
     <<"U+D835", "U+DD08">>, <<"U+D835", "U+DD09">>, <<"U+D835", "U+DD0A">>, <<"U+D835", "U+DD0D">>,
     <<"U+D835", "U+DD0E">>, <<"U+D835", "U+DD0F">>, <<"U+D835", "U+DD10">>, <<"U+D835", "U+DD11">>,
     <<"U+D835", "U+DD12">>, <<"U+D835", "U+DD13">>, <<"U+D835", "U+DD14">>, <<"U+D835", "U+DD16">>,
     <<"U+D835", "U+DD17">>, <<"U+D835", "U+DD18">>, <<"U+D835", "U+DD19">>, <<"U+D835", "U+DD1A">>,
     <<"U+D835", "U+DD1B">>, <<"U+D835", "U+DD1C">>, <<"U+D835", "U+DD1E">>, <<"U+D835", "U+DD1F">>,
     <<"U+D835", "U+DD20">>, <<"U+D835", "U+DD21">>, <<"U+D835", "U+DD22">>, <<"U+D835", "U+DD23">>,
     <<"U+D835", "U+DD24">>, <<"U+D835", "U+DD25">>, <<"U+D835", "U+DD26">>, <<"U+D835", "U+DD27">>,
     <<"U+D835", "U+DD28">>, <<"U+D835", "U+DD29">>, <<"U+D835", "U+DD2A">>, <<"U+D835", "U+DD2B">>,
     <<"U+D835", "U+DD2C">>, <<"U+D835", "U+DD2D">>, <<"U+D835", "U+DD2E">>, <<"U+D835", "U+DD2F">>,
     <<"U+D835", "U+DD30">>, <<"U+D835", "U+DD31">>, <<"U+D835", "U+DD32">>, <<"U+D835", "U+DD33">>,
     <<"U+D835", "U+DD34">>, <<"U+D835", "U+DD35">>, <<"U+D835", "U+DD36">>, <<"U+D835", "U+DD37">>,
     <<"U+D835", "U+DD38">>, <<"U+D835", "U+DD39">>, <<"U+D835", "U+DD3B">>, <<"U+D835", "U+DD3C">>,
     <<"U+D835", "U+DD3D">>, <<"U+D835", "U+DD3E">>, <<"U+D835", "U+DD40">>, <<"U+D835", "U+DD41">>,
     <<"U+D835", "U+DD42">>, <<"U+D835", "U+DD43">>, <<"U+D835", "U+DD44">>, <<"U+D835", "U+DD46">>,
     <<"U+D835", "U+DD4A">>, <<"U+D835", "U+DD4B">>, <<"U+D835", "U+DD4C">>, <<"U+D835", "U+DD4D">>,
     <<"U+D835", "U+DD4E">>, <<"U+D835", "U+DD4F">>, <<"U+D835", "U+DD50">>, <<"U+D835", "U+DD52">>,
     <<"U+D835", "U+DD53">>, <<"U+D835", "U+DD54">>, <<"U+D835", "U+DD55">>, <<"U+D835", "U+DD56">>,
     <<"U+D835", "U+DD57">>, <<"U+D835", "U+DD58">>, <<"U+D835", "U+DD59">>, <<"U+D835", "U+DD5A">>,
     <<"U+D835", "U+DD5B">>, <<"U+D835", "U+DD5C">>, <<"U+D835", "U+DD5D">>, <<"U+D835", "U+DD5E">>,
     <<"U+D835", "U+DD5F">>, <<"U+D835", "U+DD60">>, <<"U+D835", "U+DD61">>, <<"U+D835", "U+DD62">>,
     <<"U+D835", "U+DD63">>, <<"U+D835", "U+DD64">>, <<"U+D835", "U+DD65">>, <<"U+D835", "U+DD66">>,
     <<"U+D835", "U+DD67">>, <<"U+D835", "U+DD68">>, <<"U+D835", "U+DD69">>, <<"U+D835", "U+DD6A">>,
     <<"U+D835", "U+DD6B">>, <<"U+D835", "U+DD6C">>, <<"U+D835", "U+DD6D">>, <<"U+D835", "U+DD6E">>,
     <<"U+D835", "U+DD6F">>, <<"U+D835", "U+DD70">>, <<"U+D835", "U+DD71">>, <<"U+D835", "U+DD72">>,
     <<"U+D835", "U+DD73">>, <<"U+D835", "U+DD74">>, <<"U+D835", "U+DD75">>, <<"U+D835", "U+DD76">>,
     <<"U+D835", "U+DD77">>, <<"U+D835", "U+DD78">>, <<"U+D835", "U+DD79">>, <<"U+D835", "U+DD7A">>,
     <<"U+D835", "U+DD7B">>, <<"U+D835", "U+DD7C">>, <<"U+D835", "U+DD7D">>, <<"U+D835", "U+DD7E">>,
     <<"U+D835", "U+DD7F">>, <<"U+D835", "U+DD80">>, <<"U+D835", "U+DD81">>, <<"U+D835", "U+DD82">>,
     <<"U+D835", "U+DD83">>, <<"U+D835", "U+DD84">>, <<"U+D835", "U+DD85">>, <<"U+D835", "U+DD86">>,
     <<"U+D835", "U+DD87">>, <<"U+D835", "U+DD88">>, <<"U+D835", "U+DD89">>, <<"U+D835", "U+DD8A">>,
     <<"U+D835", "U+DD8B">>, <<"U+D835", "U+DD8C">>, <<"U+D835", "U+DD8D">>, <<"U+D835", "U+DD8E">>,
     <<"U+D835", "U+DD8F">>, <<"U+D835", "U+DD90">>, <<"U+D835", "U+DD91">>, <<"U+D835", "U+DD92">>,
     <<"U+D835", "U+DD93">>, <<"U+D835", "U+DD94">>, <<"U+D835", "U+DD95">>, <<"U+D835", "U+DD96">>,
     <<"U+D835", "U+DD97">>, <<"U+D835", "U+DD98">>, <<"U+D835", "U+DD99">>, <<"U+D835", "U+DD9A">>,
     <<"U+D835", "U+DD9B">>, <<"U+D835", "U+DD9C">>, <<"U+D835", "U+DD9D">>, <<"U+D835", "U+DD9E">>,
     <<"U+D835", "U+DD9F">>, <<"U+D835", "U+DDA0">>, <<"U+D835", "U+DDA1">>, <<"U+D835", "U+DDA2">>,
     <<"U+D835", "U+DDA3">>, <<"U+D835", "U+DDA4">>, <<"U+D835", "U+DDA5">>, <<"U+D835", "U+DDA6">>,
     <<"U+D835", "U+DDA7">>, <<"U+D835", "U+DDA8">>, <<"U+D835", "U+DDA9">>, <<"U+D835", "U+DDAA">>,
     <<"U+D835", "U+DDAB">>, <<"U+D835", "U+DDAC">>, <<"U+D835", "U+DDAD">>, <<"U+D835", "U+DDAE">>,
     <<"U+D835", "U+DDAF">>, <<"U+D835", "U+DDB0">>, <<"U+D835", "U+DDB1">>, <<"U+D835", "U+DDB2">>,
     <<"U+D835", "U+DDB3">>, <<"U+D835", "U+DDB4">>, <<"U+D835", "U+DDB5">>, <<"U+D835", "U+DDB6">>,
     <<"U+D835", "U+DDB7">>, <<"U+D835", "U+DDB8">>, <<"U+D835", "U+DDB9">>, <<"U+D835", "U+DDBA">>,
     <<"U+D835", "U+DDBB">>, <<"U+D835", "U+DDBC">>, <<"U+D835", "U+DDBD">>, <<"U+D835", "U+DDBE">>,
     <<"U+D835", "U+DDBF">>, <<"U+D835", "U+DDC0">>, <<"U+D835", "U+DDC1">>, <<"U+D835", "U+DDC2">>,
     <<"U+D835", "U+DDC3">>, <<"U+D835", "U+DDC4">>, <<"U+D835", "U+DDC5">>, <<"U+D835", "U+DDC6">>,
     <<"U+D835", "U+DDC7">>, <<"U+D835", "U+DDC8">>, <<"U+D835", "U+DDC9">>, <<"U+D835", "U+DDCA">>,
     <<"U+D835", "U+DDCB">>, <<"U+D835", "U+DDCC">>, <<"U+D835", "U+DDCD">>, <<"U+D835", "U+DDCE">>,
     <<"U+D835", "U+DDCF">>, <<"U+D835", "U+DDD0">>, <<"U+D835", "U+DDD1">>, <<"U+D835", "U+DDD2">>,
     <<"U+D835", "U+DDD3">>, <<"U+D835", "U+DDD4">>, <<"U+D835", "U+DDD5">>, <<"U+D835", "U+DDD6">>,
     <<"U+D835", "U+DDD7">>, <<"U+D835", "U+DDD8">>, <<"U+D835", "U+DDD9">>, <<"U+D835", "U+DDDA">>,
     <<"U+D835", "U+DDDB">>, <<"U+D835", "U+DDDC">>, <<"U+D835", "U+DDDD">>, <<"U+D835", "U+DDDE">>,
     <<"U+D835", "U+DDDF">>, <<"U+D835", "U+DDE0">>, <<"U+D835", "U+DDE1">>, <<"U+D835", "U+DDE2">>,
     <<"U+D835", "U+DDE3">>, <<"U+D835", "U+DDE4">>, <<"U+D835", "U+DDE5">>, <<"U+D835", "U+DDE6">>,
     <<"U+D835", "U+DDE7">>, <<"U+D835", "U+DDE8">>, <<"U+D835", "U+DDE9">>, <<"U+D835", "U+DDEA">>,
     <<"U+D835", "U+DDEB">>, <<"U+D835", "U+DDEC">>, <<"U+D835", "U+DDED">>, <<"U+D835", "U+DDEE">>,
     <<"U+D835", "U+DDEF">>, <<"U+D835", "U+DDF0">>, <<"U+D835", "U+DDF1">>, <<"U+D835", "U+DDF2">>,
     <<"U+D835", "U+DDF3">>, <<"U+D835", "U+DDF4">>, <<"U+D835", "U+DDF5">>, <<"U+D835", "U+DDF6">>,
     <<"U+D835", "U+DDF7">>, <<"U+D835", "U+DDF8">>, <<"U+D835", "U+DDF9">>, <<"U+D835", "U+DDFA">>,
     <<"U+D835", "U+DDFB">>, <<"U+D835", "U+DDFC">>, <<"U+D835", "U+DDFD">>, <<"U+D835", "U+DDFE">>,
     <<"U+D835", "U+DDFF">>, <<"U+D835", "U+DE00">>, <<"U+D835", "U+DE01">>, <<"U+D835", "U+DE02">>,
     <<"U+D835", "U+DE03">>, <<"U+D835", "U+DE04">>, <<"U+D835", "U+DE05">>, <<"U+D835", "U+DE06">>,
     <<"U+D835", "U+DE07">>, <<"U+D835", "U+DE08">>, <<"U+D835", "U+DE09">>, <<"U+D835", "U+DE0A">>,
     <<"U+D835", "U+DE0B">>, <<"U+D835", "U+DE0C">>, <<"U+D835", "U+DE0D">>, <<"U+D835", "U+DE0E">>,
     <<"U+D835", "U+DE0F">>, <<"U+D835", "U+DE10">>, <<"U+D835", "U+DE11">>, <<"U+D835", "U+DE12">>,
     <<"U+D835", "U+DE13">>, <<"U+D835", "U+DE14">>, <<"U+D835", "U+DE15">>, <<"U+D835", "U+DE16">>,
     <<"U+D835", "U+DE17">>, <<"U+D835", "U+DE18">>, <<"U+D835", "U+DE19">>, <<"U+D835", "U+DE1A">>,
     <<"U+D835", "U+DE1B">>, <<"U+D835", "U+DE1C">>, <<"U+D835", "U+DE1D">>, <<"U+D835", "U+DE1E">>,
     <<"U+D835", "U+DE1F">>, <<"U+D835", "U+DE20">>, <<"U+D835", "U+DE21">>, <<"U+D835", "U+DE22">>,
     <<"U+D835", "U+DE23">>, <<"U+D835", "U+DE24">>, <<"U+D835", "U+DE25">>, <<"U+D835", "U+DE26">>,
     <<"U+D835", "U+DE27">>, <<"U+D835", "U+DE28">>, <<"U+D835", "U+DE29">>, <<"U+D835", "U+DE2A">>,
     <<"U+D835", "U+DE2B">>, <<"U+D835", "U+DE2C">>, <<"U+D835", "U+DE2D">>, <<"U+D835", "U+DE2E">>,
     <<"U+D835", "U+DE2F">>, <<"U+D835", "U+DE30">>, <<"U+D835", "U+DE31">>, <<"U+D835", "U+DE32">>,
     <<"U+D835", "U+DE33">>, <<"U+D835", "U+DE34">>, <<"U+D835", "U+DE35">>, <<"U+D835", "U+DE36">>,
     <<"U+D835", "U+DE37">>, <<"U+D835", "U+DE38">>, <<"U+D835", "U+DE39">>, <<"U+D835", "U+DE3A">>,
     <<"U+D835", "U+DE3B">>, <<"U+D835", "U+DE3C">>, <<"U+D835", "U+DE3D">>, <<"U+D835", "U+DE3E">>,
     <<"U+D835", "U+DE3F">>, <<"U+D835", "U+DE40">>, <<"U+D835", "U+DE41">>, <<"U+D835", "U+DE42">>,
     <<"U+D835", "U+DE43">>, <<"U+D835", "U+DE44">>, <<"U+D835", "U+DE45">>, <<"U+D835", "U+DE46">>,
     <<"U+D835", "U+DE47">>, <<"U+D835", "U+DE48">>, <<"U+D835", "U+DE49">>, <<"U+D835", "U+DE4A">>,
     <<"U+D835", "U+DE4B">>, <<"U+D835", "U+DE4C">>, <<"U+D835", "U+DE4D">>, <<"U+D835", "U+DE4E">>,
     <<"U+D835", "U+DE4F">>, <<"U+D835", "U+DE50">>, <<"U+D835", "U+DE51">>, <<"U+D835", "U+DE52">>,
     <<"U+D835", "U+DE53">>, <<"U+D835", "U+DE54">>, <<"U+D835", "U+DE55">>, <<"U+D835", "U+DE56">>,
     <<"U+D835", "U+DE57">>, <<"U+D835", "U+DE58">>, <<"U+D835", "U+DE59">>, <<"U+D835", "U+DE5A">>,
     <<"U+D835", "U+DE5B">>, <<"U+D835", "U+DE5C">>, <<"U+D835", "U+DE5D">>, <<"U+D835", "U+DE5E">>,
     <<"U+D835", "U+DE5F">>, <<"U+D835", "U+DE60">>, <<"U+D835", "U+DE61">>, <<"U+D835", "U+DE62">>,
     <<"U+D835", "U+DE63">>, <<"U+D835", "U+DE64">>, <<"U+D835", "U+DE65">>, <<"U+D835", "U+DE66">>,
     <<"U+D835", "U+DE67">>, <<"U+D835", "U+DE68">>, <<"U+D835", "U+DE69">>, <<"U+D835", "U+DE6A">>,
     <<"U+D835", "U+DE6B">>, <<"U+D835", "U+DE6C">>, <<"U+D835", "U+DE6D">>, <<"U+D835", "U+DE6E">>,
     <<"U+D835", "U+DE6F">>, <<"U+D835", "U+DE70">>, <<"U+D835", "U+DE71">>, <<"U+D835", "U+DE72">>,
     <<"U+D835", "U+DE73">>, <<"U+D835", "U+DE74">>, <<"U+D835", "U+DE75">>, <<"U+D835", "U+DE76">>,
     <<"U+D835", "U+DE77">>, <<"U+D835", "U+DE78">>, <<"U+D835", "U+DE79">>, <<"U+D835", "U+DE7A">>,
     <<"U+D835", "U+DE7B">>, <<"U+D835", "U+DE7C">>, <<"U+D835", "U+DE7D">>, <<"U+D835", "U+DE7E">>,
     <<"U+D835", "U+DE7F">>, <<"U+D835", "U+DE80">>, <<"U+D835", "U+DE81">>, <<"U+D835", "U+DE82">>,
     <<"U+D835", "U+DE83">>, <<"U+D835", "U+DE84">>, <<"U+D835", "U+DE85">>, <<"U+D835", "U+DE86">>,
     <<"U+D835", "U+DE87">>, <<"U+D835", "U+DE88">>, <<"U+D835", "U+DE89">>, <<"U+D835", "U+DE8A">>,
     <<"U+D835", "U+DE8B">>, <<"U+D835", "U+DE8C">>, <<"U+D835", "U+DE8D">>, <<"U+D835", "U+DE8E">>,
     <<"U+D835", "U+DE8F">>, <<"U+D835", "U+DE90">>, <<"U+D835", "U+DE91">>, <<"U+D835", "U+DE92">>,
     <<"U+D835", "U+DE93">>, <<"U+D835", "U+DE94">>, <<"U+D835", "U+DE95">>, <<"U+D835", "U+DE96">>,
     <<"U+D835", "U+DE97">>, <<"U+D835", "U+DE98">>, <<"U+D835", "U+DE99">>, <<"U+D835", "U+DE9A">>,
     <<"U+D835", "U+DE9B">>, <<"U+D835", "U+DE9C">>, <<"U+D835", "U+DE9D">>, <<"U+D835", "U+DE9E">>,
     <<"U+D835", "U+DE9F">>, <<"U+D835", "U+DEA0">>, <<"U+D835", "U+DEA1">>, <<"U+D835", "U+DEA2">>,
     <<"U+D835", "U+DEA3">>, <<"U+D835", "U+DEA4">>, <<"U+D835", "U+DEA5">>, <<"U+D835", "U+DEA8">>,
     <<"U+D835", "U+DEA9">>, <<"U+D835", "U+DEAA">>, <<"U+D835", "U+DEAB">>, <<"U+D835", "U+DEAC">>,
     <<"U+D835", "U+DEAD">>, <<"U+D835", "U+DEAE">>, <<"U+D835", "U+DEAF">>, <<"U+D835", "U+DEB0">>,
     <<"U+D835", "U+DEB1">>, <<"U+D835", "U+DEB2">>, <<"U+D835", "U+DEB3">>, <<"U+D835", "U+DEB4">>,
     <<"U+D835", "U+DEB5">>, <<"U+D835", "U+DEB6">>, <<"U+D835", "U+DEB7">>, <<"U+D835", "U+DEB8">>,
     <<"U+D835", "U+DEB9">>, <<"U+D835", "U+DEBA">>, <<"U+D835", "U+DEBB">>, <<"U+D835", "U+DEBC">>,
     <<"U+D835", "U+DEBD">>, <<"U+D835", "U+DEBE">>, <<"U+D835", "U+DEBF">>, <<"U+D835", "U+DEC0">>,
     <<"U+D835", "U+DEC2">>, <<"U+D835", "U+DEC3">>, <<"U+D835", "U+DEC4">>, <<"U+D835", "U+DEC5">>,
     <<"U+D835", "U+DEC6">>, <<"U+D835", "U+DEC7">>, <<"U+D835", "U+DEC8">>, <<"U+D835", "U+DEC9">>,
     <<"U+D835", "U+DECA">>, <<"U+D835", "U+DECB">>, <<"U+D835", "U+DECC">>, <<"U+D835", "U+DECD">>,
     <<"U+D835", "U+DECE">>, <<"U+D835", "U+DECF">>, <<"U+D835", "U+DED0">>, <<"U+D835", "U+DED1">>,
     <<"U+D835", "U+DED2">>, <<"U+D835", "U+DED3">>, <<"U+D835", "U+DED4">>, <<"U+D835", "U+DED5">>,
     <<"U+D835", "U+DED6">>, <<"U+D835", "U+DED7">>, <<"U+D835", "U+DED8">>, <<"U+D835", "U+DED9">>,
     <<"U+D835", "U+DEDA">>, <<"U+D835", "U+DEDC">>, <<"U+D835", "U+DEDD">>, <<"U+D835", "U+DEDE">>,
     <<"U+D835", "U+DEDF">>, <<"U+D835", "U+DEE0">>, <<"U+D835", "U+DEE1">>, <<"U+D835", "U+DEE2">>,
     <<"U+D835", "U+DEE3">>, <<"U+D835", "U+DEE4">>, <<"U+D835", "U+DEE5">>, <<"U+D835", "U+DEE6">>,
     <<"U+D835", "U+DEE7">>, <<"U+D835", "U+DEE8">>, <<"U+D835", "U+DEE9">>, <<"U+D835", "U+DEEA">>,
     <<"U+D835", "U+DEEB">>, <<"U+D835", "U+DEEC">>, <<"U+D835", "U+DEED">>, <<"U+D835", "U+DEEE">>,
     <<"U+D835", "U+DEEF">>, <<"U+D835", "U+DEF0">>, <<"U+D835", "U+DEF1">>, <<"U+D835", "U+DEF2">>,
     <<"U+D835", "U+DEF3">>, <<"U+D835", "U+DEF4">>, <<"U+D835", "U+DEF5">>, <<"U+D835", "U+DEF6">>,
     <<"U+D835", "U+DEF7">>, <<"U+D835", "U+DEF8">>, <<"U+D835", "U+DEF9">>, <<"U+D835", "U+DEFA">>,
     <<"U+D835", "U+DEFC">>, <<"U+D835", "U+DEFD">>, <<"U+D835", "U+DEFE">>, <<"U+D835", "U+DEFF">>,
     <<"U+D835", "U+DF00">>, <<"U+D835", "U+DF01">>, <<"U+D835", "U+DF02">>, <<"U+D835", "U+DF03">>,
     <<"U+D835", "U+DF04">>, <<"U+D835", "U+DF05">>, <<"U+D835", "U+DF06">>, <<"U+D835", "U+DF07">>,
     <<"U+D835", "U+DF08">>, <<"U+D835", "U+DF09">>, <<"U+D835", "U+DF0A">>, <<"U+D835", "U+DF0B">>,
     <<"U+D835", "U+DF0C">>, <<"U+D835", "U+DF0D">>, <<"U+D835", "U+DF0E">>, <<"U+D835", "U+DF0F">>,
     <<"U+D835", "U+DF10">>, <<"U+D835", "U+DF11">>, <<"U+D835", "U+DF12">>, <<"U+D835", "U+DF13">>,
     <<"U+D835", "U+DF14">>, <<"U+D835", "U+DF16">>, <<"U+D835", "U+DF17">>, <<"U+D835", "U+DF18">>,
     <<"U+D835", "U+DF19">>, <<"U+D835", "U+DF1A">>, <<"U+D835", "U+DF1B">>, <<"U+D835", "U+DF1C">>,
     <<"U+D835", "U+DF1D">>, <<"U+D835", "U+DF1E">>, <<"U+D835", "U+DF1F">>, <<"U+D835", "U+DF20">>,
     <<"U+D835", "U+DF21">>, <<"U+D835", "U+DF22">>, <<"U+D835", "U+DF23">>, <<"U+D835", "U+DF24">>,
     <<"U+D835", "U+DF25">>, <<"U+D835", "U+DF26">>, <<"U+D835", "U+DF27">>, <<"U+D835", "U+DF28">>,
     <<"U+D835", "U+DF29">>, <<"U+D835", "U+DF2A">>, <<"U+D835", "U+DF2B">>, <<"U+D835", "U+DF2C">>,
     <<"U+D835", "U+DF2D">>, <<"U+D835", "U+DF2E">>, <<"U+D835", "U+DF2F">>, <<"U+D835", "U+DF30">>,
     <<"U+D835", "U+DF31">>, <<"U+D835", "U+DF32">>, <<"U+D835", "U+DF33">>, <<"U+D835", "U+DF34">>,
     <<"U+D835", "U+DF36">>, <<"U+D835", "U+DF37">>, <<"U+D835", "U+DF38">>, <<"U+D835", "U+DF39">>,
     <<"U+D835", "U+DF3A">>, <<"U+D835", "U+DF3B">>, <<"U+D835", "U+DF3C">>, <<"U+D835", "U+DF3D">>,
     <<"U+D835", "U+DF3E">>, <<"U+D835", "U+DF3F">>, <<"U+D835", "U+DF40">>, <<"U+D835", "U+DF41">>,
     <<"U+D835", "U+DF42">>, <<"U+D835", "U+DF43">>, <<"U+D835", "U+DF44">>, <<"U+D835", "U+DF45">>,
     <<"U+D835", "U+DF46">>, <<"U+D835", "U+DF47">>, <<"U+D835", "U+DF48">>, <<"U+D835", "U+DF49">>,
     <<"U+D835", "U+DF4A">>, <<"U+D835", "U+DF4B">>, <<"U+D835", "U+DF4C">>, <<"U+D835", "U+DF4D">>,
     <<"U+D835", "U+DF4E">>, <<"U+D835", "U+DF50">>, <<"U+D835", "U+DF51">>, <<"U+D835", "U+DF52">>,
     <<"U+D835", "U+DF53">>, <<"U+D835", "U+DF54">>, <<"U+D835", "U+DF55">>, <<"U+D835", "U+DF56">>,
     <<"U+D835", "U+DF57">>, <<"U+D835", "U+DF58">>, <<"U+D835", "U+DF59">>, <<"U+D835", "U+DF5A">>,
     <<"U+D835", "U+DF5B">>, <<"U+D835", "U+DF5C">>, <<"U+D835", "U+DF5D">>, <<"U+D835", "U+DF5E">>,
     <<"U+D835", "U+DF5F">>, <<"U+D835", "U+DF60">>, <<"U+D835", "U+DF61">>, <<"U+D835", "U+DF62">>,
     <<"U+D835", "U+DF63">>, <<"U+D835", "U+DF64">>, <<"U+D835", "U+DF65">>, <<"U+D835", "U+DF66">>,
     <<"U+D835", "U+DF67">>, <<"U+D835", "U+DF68">>, <<"U+D835", "U+DF69">>, <<"U+D835", "U+DF6A">>,
     <<"U+D835", "U+DF6B">>, <<"U+D835", "U+DF6C">>, <<"U+D835", "U+DF6D">>, <<"U+D835", "U+DF6E">>,
     <<"U+D835", "U+DF70">>, <<"U+D835", "U+DF71">>, <<"U+D835", "U+DF72">>, <<"U+D835", "U+DF73">>,
     <<"U+D835", "U+DF74">>, <<"U+D835", "U+DF75">>, <<"U+D835", "U+DF76">>, <<"U+D835", "U+DF77">>,
     <<"U+D835", "U+DF78">>, <<"U+D835", "U+DF79">>, <<"U+D835", "U+DF7A">>, <<"U+D835", "U+DF7B">>,
     <<"U+D835", "U+DF7C">>, <<"U+D835", "U+DF7D">>, <<"U+D835", "U+DF7E">>, <<"U+D835", "U+DF7F">>,
     <<"U+D835", "U+DF80">>, <<"U+D835", "U+DF81">>, <<"U+D835", "U+DF82">>, <<"U+D835", "U+DF83">>,
     <<"U+D835", "U+DF84">>, <<"U+D835", "U+DF85">>, <<"U+D835", "U+DF86">>, <<"U+D835", "U+DF87">>,
     <<"U+D835", "U+DF88">>, <<"U+D835", "U+DF8A">>, <<"U+D835", "U+DF8B">>, <<"U+D835", "U+DF8C">>,
     <<"U+D835", "U+DF8D">>, <<"U+D835", "U+DF8E">>, <<"U+D835", "U+DF8F">>, <<"U+D835", "U+DF90">>,
     <<"U+D835", "U+DF91">>, <<"U+D835", "U+DF92">>, <<"U+D835", "U+DF93">>, <<"U+D835", "U+DF94">>,
     <<"U+D835", "U+DF95">>, <<"U+D835", "U+DF96">>, <<"U+D835", "U+DF97">>, <<"U+D835", "U+DF98">>,
     <<"U+D835", "U+DF99">>, <<"U+D835", "U+DF9A">>, <<"U+D835", "U+DF9B">>, <<"U+D835", "U+DF9C">>,
     <<"U+D835", "U+DF9D">>, <<"U+D835", "U+DF9E">>, <<"U+D835", "U+DF9F">>, <<"U+D835", "U+DFA0">>,
     <<"U+D835", "U+DFA1">>, <<"U+D835", "U+DFA2">>, <<"U+D835", "U+DFA3">>, <<"U+D835", "U+DFA4">>,
     <<"U+D835", "U+DFA5">>, <<"U+D835", "U+DFA6">>, <<"U+D835", "U+DFA7">>, <<"U+D835", "U+DFA8">>,
     <<"U+D835", "U+DFAA">>, <<"U+D835", "U+DFAB">>, <<"U+D835", "U+DFAC">>, <<"U+D835", "U+DFAD">>,
     <<"U+D835", "U+DFAE">>, <<"U+D835", "U+DFAF">>, <<"U+D835", "U+DFB0">>, <<"U+D835", "U+DFB1">>,
     <<"U+D835", "U+DFB2">>, <<"U+D835", "U+DFB3">>, <<"U+D835", "U+DFB4">>, <<"U+D835", "U+DFB5">>,
     <<"U+D835", "U+DFB6">>, <<"U+D835", "U+DFB7">>, <<"U+D835", "U+DFB8">>, <<"U+D835", "U+DFB9">>,
     <<"U+D835", "U+DFBA">>, <<"U+D835", "U+DFBB">>, <<"U+D835", "U+DFBC">>, <<"U+D835", "U+DFBD">>,
     <<"U+D835", "U+DFBE">>, <<"U+D835", "U+DFBF">>, <<"U+D835", "U+DFC0">>, <<"U+D835", "U+DFC1">>,
     <<"U+D835", "U+DFC2">>, <<"U+D835", "U+DFC4">>, <<"U+D835", "U+DFC5">>, <<"U+D835", "U+DFC6">>,
     <<"U+D835", "U+DFC7">>, <<"U+D835", "U+DFC8">>, <<"U+D835", "U+DFC9">>, <<"U+D835", "U+DFCA">>,
     <<"U+D835", "U+DFCB">>, <<"U+D837", "U+DF00">>, <<"U+D837", "U+DF01">>, <<"U+D837", "U+DF02">>,
     <<"U+D837", "U+DF03">>, <<"U+D837", "U+DF04">>, <<"U+D837", "U+DF05">>, <<"U+D837", "U+DF06">>,
     <<"U+D837", "U+DF07">>, <<"U+D837", "U+DF08">>, <<"U+D837", "U+DF09">>, <<"U+D837", "U+DF0B">>,
     <<"U+D837", "U+DF0C">>, <<"U+D837", "U+DF0D">>, <<"U+D837", "U+DF0E">>, <<"U+D837", "U+DF0F">>,
     <<"U+D837", "U+DF10">>, <<"U+D837", "U+DF11">>, <<"U+D837", "U+DF12">>, <<"U+D837", "U+DF13">>,
     <<"U+D837", "U+DF14">>, <<"U+D837", "U+DF15">>, <<"U+D837", "U+DF16">>, <<"U+D837", "U+DF17">>,
     <<"U+D837", "U+DF18">>, <<"U+D837", "U+DF19">>, <<"U+D837", "U+DF1A">>, <<"U+D837", "U+DF1B">>,
     <<"U+D837", "U+DF1C">>, <<"U+D837", "U+DF1D">>, <<"U+D837", "U+DF1E">>, <<"U+D837", "U+DF25">>,
     <<"U+D837", "U+DF26">>, <<"U+D837", "U+DF27">>, <<"U+D837", "U+DF28">>, <<"U+D837", "U+DF29">>,
     <<"U+D837", "U+DF2A">>, <<"U+D838", "U+DC30">>, <<"U+D838", "U+DC31">>, <<"U+D838", "U+DC32">>,
     <<"U+D838", "U+DC33">>, <<"U+D838", "U+DC34">>, <<"U+D838", "U+DC35">>, <<"U+D838", "U+DC36">>,
     <<"U+D838", "U+DC37">>, <<"U+D838", "U+DC38">>, <<"U+D838", "U+DC39">>, <<"U+D838", "U+DC3A">>,
     <<"U+D838", "U+DC3B">>, <<"U+D838", "U+DC3C">>, <<"U+D838", "U+DC3D">>, <<"U+D838", "U+DC3E">>,
     <<"U+D838", "U+DC3F">>, <<"U+D838", "U+DC40">>, <<"U+D838", "U+DC41">>, <<"U+D838", "U+DC42">>,
     <<"U+D838", "U+DC43">>, <<"U+D838", "U+DC44">>, <<"U+D838", "U+DC45">>, <<"U+D838", "U+DC46">>,
     <<"U+D838", "U+DC47">>, <<"U+D838", "U+DC48">>, <<"U+D838", "U+DC49">>, <<"U+D838", "U+DC4A">>,
     <<"U+D838", "U+DC4B">>, <<"U+D838", "U+DC4C">>, <<"U+D838", "U+DC4D">>, <<"U+D838", "U+DC4E">>,
     <<"U+D838", "U+DC4F">>, <<"U+D838", "U+DC50">>, <<"U+D838", "U+DC51">>, <<"U+D838", "U+DC52">>,
     <<"U+D838", "U+DC53">>, <<"U+D838", "U+DC54">>, <<"U+D838", "U+DC55">>, <<"U+D838", "U+DC56">>,
     <<"U+D838", "U+DC57">>, <<"U+D838", "U+DC58">>, <<"U+D838", "U+DC59">>, <<"U+D838", "U+DC5A">>,
     <<"U+D838", "U+DC5B">>, <<"U+D838", "U+DC5C">>, <<"U+D838", "U+DC5D">>, <<"U+D838", "U+DC5E">>,
     <<"U+D838", "U+DC5F">>, <<"U+D838", "U+DC60">>, <<"U+D838", "U+DC61">>, <<"U+D838", "U+DC62">>,
     <<"U+D838", "U+DC63">>, <<"U+D838", "U+DC64">>, <<"U+D838", "U+DC65">>, <<"U+D838", "U+DC66">>,
     <<"U+D838", "U+DC67">>, <<"U+D838", "U+DC68">>, <<"U+D838", "U+DC69">>, <<"U+D838", "U+DC6A">>,
     <<"U+D838", "U+DC6B">>, <<"U+D838", "U+DC6C">>, <<"U+D838", "U+DC6D">>, <<"U+D83A", "U+DD00">>,
     <<"U+D83A", "U+DD01">>, <<"U+D83A", "U+DD02">>, <<"U+D83A", "U+DD03">>, <<"U+D83A", "U+DD04">>,
     <<"U+D83A", "U+DD05">>, <<"U+D83A", "U+DD06">>, <<"U+D83A", "U+DD07">>, <<"U+D83A", "U+DD08">>,
     <<"U+D83A", "U+DD09">>, <<"U+D83A", "U+DD0A">>, <<"U+D83A", "U+DD0B">>, <<"U+D83A", "U+DD0C">>,
     <<"U+D83A", "U+DD0D">>, <<"U+D83A", "U+DD0E">>, <<"U+D83A", "U+DD0F">>, <<"U+D83A", "U+DD10">>,
     <<"U+D83A", "U+DD11">>, <<"U+D83A", "U+DD12">>, <<"U+D83A", "U+DD13">>, <<"U+D83A", "U+DD14">>,
     <<"U+D83A", "U+DD15">>, <<"U+D83A", "U+DD16">>, <<"U+D83A", "U+DD17">>, <<"U+D83A", "U+DD18">>,
     <<"U+D83A", "U+DD19">>, <<"U+D83A", "U+DD1A">>, <<"U+D83A", "U+DD1B">>, <<"U+D83A", "U+DD1C">>,
     <<"U+D83A", "U+DD1D">>, <<"U+D83A", "U+DD1E">>, <<"U+D83A", "U+DD1F">>, <<"U+D83A", "U+DD20">>,
     <<"U+D83A", "U+DD21">>, <<"U+D83A", "U+DD22">>, <<"U+D83A", "U+DD23">>, <<"U+D83A", "U+DD24">>,
     <<"U+D83A", "U+DD25">>, <<"U+D83A", "U+DD26">>, <<"U+D83A", "U+DD27">>, <<"U+D83A", "U+DD28">>,
     <<"U+D83A", "U+DD29">>, <<"U+D83A", "U+DD2A">>, <<"U+D83A", "U+DD2B">>, <<"U+D83A", "U+DD2C">>,
     <<"U+D83A", "U+DD2D">>, <<"U+D83A", "U+DD2E">>, <<"U+D83A", "U+DD2F">>, <<"U+D83A", "U+DD30">>,
     <<"U+D83A", "U+DD31">>, <<"U+D83A", "U+DD32">>, <<"U+D83A", "U+DD33">>, <<"U+D83A", "U+DD34">>,
     <<"U+D83A", "U+DD35">>, <<"U+D83A", "U+DD36">>, <<"U+D83A", "U+DD37">>, <<"U+D83A", "U+DD38">>,
     <<"U+D83A", "U+DD39">>, <<"U+D83A", "U+DD3A">>, <<"U+D83A", "U+DD3B">>, <<"U+D83A", "U+DD3C">>,
     <<"U+D83A", "U+DD3D">>, <<"U+D83A", "U+DD3E">>, <<"U+D83A", "U+DD3F">>, <<"U+D83A", "U+DD40">>,
     <<"U+D83A", "U+DD41">>, <<"U+D83A", "U+DD42">>, <<"U+D83A", "U+DD43">>, <<"U+D83C", "U+DD30">>,
     <<"U+D83C", "U+DD31">>, <<"U+D83C", "U+DD32">>, <<"U+D83C", "U+DD33">>, <<"U+D83C", "U+DD34">>,
     <<"U+D83C", "U+DD35">>, <<"U+D83C", "U+DD36">>, <<"U+D83C", "U+DD37">>, <<"U+D83C", "U+DD38">>,
     <<"U+D83C", "U+DD39">>, <<"U+D83C", "U+DD3A">>, <<"U+D83C", "U+DD3B">>, <<"U+D83C", "U+DD3C">>,
     <<"U+D83C", "U+DD3D">>, <<"U+D83C", "U+DD3E">>, <<"U+D83C", "U+DD3F">>, <<"U+D83C", "U+DD40">>,
     <<"U+D83C", "U+DD41">>, <<"U+D83C", "U+DD42">>, <<"U+D83C", "U+DD43">>, <<"U+D83C", "U+DD44">>,
     <<"U+D83C", "U+DD45">>, <<"U+D83C", "U+DD46">>, <<"U+D83C", "U+DD47">>, <<"U+D83C", "U+DD48">>,
     <<"U+D83C", "U+DD49">>, <<"U+D83C", "U+DD50">>, <<"U+D83C", "U+DD51">>, <<"U+D83C", "U+DD52">>,
     <<"U+D83C", "U+DD53">>, <<"U+D83C", "U+DD54">>, <<"U+D83C", "U+DD55">>, <<"U+D83C", "U+DD56">>,
     <<"U+D83C", "U+DD57">>, <<"U+D83C", "U+DD58">>, <<"U+D83C", "U+DD59">>, <<"U+D83C", "U+DD5A">>,
     <<"U+D83C", "U+DD5B">>, <<"U+D83C", "U+DD5C">>, <<"U+D83C", "U+DD5D">>, <<"U+D83C", "U+DD5E">>,
     <<"U+D83C", "U+DD5F">>, <<"U+D83C", "U+DD60">>, <<"U+D83C", "U+DD61">>, <<"U+D83C", "U+DD62">>,
     <<"U+D83C", "U+DD63">>, <<"U+D83C", "U+DD64">>, <<"U+D83C", "U+DD65">>, <<"U+D83C", "U+DD66">>,
     <<"U+D83C", "U+DD67">>, <<"U+D83C", "U+DD68">>, <<"U+D83C", "U+DD69">>, <<"U+D83C", "U+DD70">>,
     <<"U+D83C", "U+DD71">>, <<"U+D83C", "U+DD72">>, <<"U+D83C", "U+DD73">>, <<"U+D83C", "U+DD74">>,
     <<"U+D83C", "U+DD75">>, <<"U+D83C", "U+DD76">>, <<"U+D83C", "U+DD77">>, <<"U+D83C", "U+DD78">>,
     <<"U+D83C", "U+DD79">>, <<"U+D83C", "U+DD7A">>, <<"U+D83C", "U+DD7B">>, <<"U+D83C", "U+DD7C">>,
     <<"U+D83C", "U+DD7D">>, <<"U+D83C", "U+DD7E">>, <<"U+D83C", "U+DD7F">>, <<"U+D83C", "U+DD80">>,
     <<"U+D83C", "U+DD81">>, <<"U+D83C", "U+DD82">>, <<"U+D83C", "U+DD83">>, <<"U+D83C", "U+DD84">>,
     <<"U+D83C", "U+DD85">>, <<"U+D83C", "U+DD86">>, <<"U+D83C", "U+DD87">>, <<"U+D83C", "U+DD88">>,
     <<"U+D83C", "U+DD89">>
    }

\* the surrogate pairs with the property Case_Ignorable
AstralCaseIgnorable ==
    {
     <<"U+D800", "U+DDFD">>, <<"U+D800", "U+DEE0">>, <<"U+D800", "U+DF76">>, <<"U+D800", "U+DF77">>,
     <<"U+D800", "U+DF78">>, <<"U+D800", "U+DF79">>, <<"U+D800", "U+DF7A">>, <<"U+D801", "U+DF80">>,
     <<"U+D801", "U+DF81">>, <<"U+D801", "U+DF82">>, <<"U+D801", "U+DF83">>, <<"U+D801", "U+DF84">>,
     <<"U+D801", "U+DF85">>, <<"U+D801", "U+DF87">>, <<"U+D801", "U+DF88">>, <<"U+D801", "U+DF89">>,
     <<"U+D801", "U+DF8A">>, <<"U+D801", "U+DF8B">>, <<"U+D801", "U+DF8C">>, <<"U+D801", "U+DF8D">>,
     <<"U+D801", "U+DF8E">>, <<"U+D801", "U+DF8F">>, <<"U+D801", "U+DF90">>, <<"U+D801", "U+DF91">>,
     <<"U+D801", "U+DF92">>, <<"U+D801", "U+DF93">>, <<"U+D801", "U+DF94">>, <<"U+D801", "U+DF95">>,
     <<"U+D801", "U+DF96">>, <<"U+D801", "U+DF97">>, <<"U+D801", "U+DF98">>, <<"U+D801", "U+DF99">>,
     <<"U+D801", "U+DF9A">>, <<"U+D801", "U+DF9B">>, <<"U+D801", "U+DF9C">>, <<"U+D801", "U+DF9D">>,
     <<"U+D801", "U+DF9E">>, <<"U+D801", "U+DF9F">>, <<"U+D801", "U+DFA0">>, <<"U+D801", "U+DFA1">>,
     <<"U+D801", "U+DFA2">>, <<"U+D801", "U+DFA3">>, <<"U+D801", "U+DFA4">>, <<"U+D801", "U+DFA5">>,
     <<"U+D801", "U+DFA6">>, <<"U+D801", "U+DFA7">>, <<"U+D801", "U+DFA8">>, <<"U+D801", "U+DFA9">>,
     <<"U+D801", "U+DFAA">>, <<"U+D801", "U+DFAB">>, <<"U+D801", "U+DFAC">>, <<"U+D801", "U+DFAD">>,
     <<"U+D801", "U+DFAE">>, <<"U+D801", "U+DFAF">>, <<"U+D801", "U+DFB0">>, <<"U+D801", "U+DFB2">>,
     <<"U+D801", "U+DFB3">>, <<"U+D801", "U+DFB4">>, <<"U+D801", "U+DFB5">>, <<"U+D801", "U+DFB6">>,
     <<"U+D801", "U+DFB7">>, <<"U+D801", "U+DFB8">>, <<"U+D801", "U+DFB9">>, <<"U+D801", "U+DFBA">>,
     <<"U+D802", "U+DE01">>, <<"U+D802", "U+DE02">>, <<"U+D802", "U+DE03">>, <<"U+D802", "U+DE05">>,
     <<"U+D802", "U+DE06">>, <<"U+D802", "U+DE0C">>, <<"U+D802", "U+DE0D">>, <<"U+D802", "U+DE0E">>,
     <<"U+D802", "U+DE0F">>, <<"U+D802", "U+DE38">>, <<"U+D802", "U+DE39">>, <<"U+D802", "U+DE3A">>,
     <<"U+D802", "U+DE3F">>, <<"U+D802", "U+DEE5">>, <<"U+D802", "U+DEE6">>, <<"U+D803", "U+DD24">>,
     <<"U+D803", "U+DD25">>, <<"U+D803", "U+DD26">>, <<"U+D803", "U+DD27">>, <<"U+D803", "U+DD4E">>,
     <<"U+D803", "U+DD69">>, <<"U+D803", "U+DD6A">>, <<"U+D803", "U+DD6B">>, <<"U+D803", "U+DD6C">>,
     <<"U+D803", "U+DD6D">>, <<"U+D803", "U+DD6F">>, <<"U+D803", "U+DEAB">>, <<"U+D803", "U+DEAC">>,
     <<"U+D803", "U+DEC5">>, <<"U+D803", "U+DEFA">>, <<"U+D803", "U+DEFB">>, <<"U+D803", "U+DEFC">>,
     <<"U+D803", "U+DEFD">>, <<"U+D803", "U+DEFE">>, <<"U+D803", "U+DEFF">>, <<"U+D803", "U+DF46">>,
     <<"U+D803", "U+DF47">>, <<"U+D803", "U+DF48">>, <<"U+D803", "U+DF49">>, <<"U+D803", "U+DF4A">>,
     <<"U+D803", "U+DF4B">>, <<"U+D803", "U+DF4C">>, <<"U+D803", "U+DF4D">>, <<"U+D803", "U+DF4E">>,
     <<"U+D803", "U+DF4F">>, <<"U+D803", "U+DF50">>, <<"U+D803", "U+DF82">>, <<"U+D803", "U+DF83">>,
     <<"U+D803", "U+DF84">>, <<"U+D803", "U+DF85">>, <<"U+D804", "U+DC01">>, <<"U+D804", "U+DC38">>,
     <<"U+D804", "U+DC39">>, <<"U+D804", "U+DC3A">>, <<"U+D804", "U+DC3B">>, <<"U+D804", "U+DC3C">>,
     <<"U+D804", "U+DC3D">>, <<"U+D804", "U+DC3E">>, <<"U+D804", "U+DC3F">>, <<"U+D804", "U+DC40">>,
     <<"U+D804", "U+DC41">>, <<"U+D804", "U+DC42">>, <<"U+D804", "U+DC43">>, <<"U+D804", "U+DC44">>,
     <<"U+D804", "U+DC45">>, <<"U+D804", "U+DC46">>, <<"U+D804", "U+DC70">>, <<"U+D804", "U+DC73">>,
     <<"U+D804", "U+DC74">>, <<"U+D804", "U+DC7F">>, <<"U+D804", "U+DC80">>, <<"U+D804", "U+DC81">>,
     <<"U+D804", "U+DCB3">>, <<"U+D804", "U+DCB4">>, <<"U+D804", "U+DCB5">>, <<"U+D804", "U+DCB6">>,
     <<"U+D804", "U+DCB9">>, <<"U+D804", "U+DCBA">>, <<"U+D804", "U+DCBD">>, <<"U+D804", "U+DCC2">>,
     <<"U+D804", "U+DCCD">>, <<"U+D804", "U+DD00">>, <<"U+D804", "U+DD01">>, <<"U+D804", "U+DD02">>,
     <<"U+D804", "U+DD27">>, <<"U+D804", "U+DD28">>, <<"U+D804", "U+DD29">>, <<"U+D804", "U+DD2A">>,
     <<"U+D804", "U+DD2B">>, <<"U+D804", "U+DD2D">>, <<"U+D804", "U+DD2E">>, <<"U+D804", "U+DD2F">>,
     <<"U+D804", "U+DD30">>, <<"U+D804", "U+DD31">>, <<"U+D804", "U+DD32">>, <<"U+D804", "U+DD33">>,
     <<"U+D804", "U+DD34">>, <<"U+D804", "U+DD73">>, <<"U+D804", "U+DD80">>, <<"U+D804", "U+DD81">>,
     <<"U+D804", "U+DDB6">>, <<"U+D804", "U+DDB7">>, <<"U+D804", "U+DDB8">>, <<"U+D804", "U+DDB9">>,
     <<"U+D804", "U+DDBA">>, <<"U+D804", "U+DDBB">>, <<"U+D804", "U+DDBC">>, <<"U+D804", "U+DDBD">>,
     <<"U+D804", "U+DDBE">>, <<"U+D804", "U+DDC9">>, <<"U+D804", "U+DDCA">>, <<"U+D804", "U+DDCB">>,
     <<"U+D804", "U+DDCC">>, <<"U+D804", "U+DDCF">>, <<"U+D804", "U+DE2F">>, <<"U+D804", "U+DE30">>,
     <<"U+D804", "U+DE31">>, <<"U+D804", "U+DE34">>, <<"U+D804", "U+DE36">>, <<"U+D804", "U+DE37">>,
     <<"U+D804", "U+DE3E">>, <<"U+D804", "U+DE41">>, <<"U+D804", "U+DEDF">>, <<"U+D804", "U+DEE3">>,
     <<"U+D804", "U+DEE4">>, <<"U+D804", "U+DEE5">>, <<"U+D804", "U+DEE6">>, <<"U+D804", "U+DEE7">>,
     <<"U+D804", "U+DEE8">>, <<"U+D804", "U+DEE9">>, <<"U+D804", "U+DEEA">>, <<"U+D804", "U+DF00">>,
     <<"U+D804", "U+DF01">>, <<"U+D804", "U+DF3B">>, <<"U+D804", "U+DF3C">>, <<"U+D804", "U+DF40">>,
     <<"U+D804", "U+DF66">>, <<"U+D804", "U+DF67">>, <<"U+D804", "U+DF68">>, <<"U+D804", "U+DF69">>,
     <<"U+D804", "U+DF6A">>, <<"U+D804", "U+DF6B">>, <<"U+D804", "U+DF6C">>, <<"U+D804", "U+DF70">>,
     <<"U+D804", "U+DF71">>, <<"U+D804", "U+DF72">>, <<"U+D804", "U+DF73">>, <<"U+D804", "U+DF74">>,
     <<"U+D804", "U+DFBB">>, <<"U+D804", "U+DFBC">>, <<"U+D804", "U+DFBD">>, <<"U+D804", "U+DFBE">>,
     <<"U+D804", "U+DFBF">>, <<"U+D804", "U+DFC0">>, <<"U+D804", "U+DFCE">>, <<"U+D804", "U+DFD0">>,
     <<"U+D804", "U+DFD2">>, <<"U+D804", "U+DFE1">>, <<"U+D804", "U+DFE2">>, <<"U+D805", "U+DC38">>,
     <<"U+D805", "U+DC39">>, <<"U+D805", "U+DC3A">>, <<"U+D805", "U+DC3B">>, <<"U+D805", "U+DC3C">>,
     <<"U+D805", "U+DC3D">>, <<"U+D805", "U+DC3E">>, <<"U+D805", "U+DC3F">>, <<"U+D805", "U+DC42">>,
     <<"U+D805", "U+DC43">>, <<"U+D805", "U+DC44">>, <<"U+D805", "U+DC46">>, <<"U+D805", "U+DC5E">>,
     <<"U+D805", "U+DCB3">>, <<"U+D805", "U+DCB4">>, <<"U+D805", "U+DCB5">>, <<"U+D805", "U+DCB6">>,
     <<"U+D805", "U+DCB7">>, <<"U+D805", "U+DCB8">>, <<"U+D805", "U+DCBA">>, <<"U+D805", "U+DCBF">>,
     <<"U+D805", "U+DCC0">>, <<"U+D805", "U+DCC2">>, <<"U+D805", "U+DCC3">>, <<"U+D805", "U+DDB2">>,
     <<"U+D805", "U+DDB3">>, <<"U+D805", "U+DDB4">>, <<"U+D805", "U+DDB5">>, <<"U+D805", "U+DDBC">>,
     <<"U+D805", "U+DDBD">>, <<"U+D805", "U+DDBF">>, <<"U+D805", "U+DDC0">>, <<"U+D805", "U+DDDC">>,
     <<"U+D805", "U+DDDD">>, <<"U+D805", "U+DE33">>, <<"U+D805", "U+DE34">>, <<"U+D805", "U+DE35">>,
     <<"U+D805", "U+DE36">>, <<"U+D805", "U+DE37">>, <<"U+D805", "U+DE38">>, <<"U+D805", "U+DE39">>,
     <<"U+D805", "U+DE3A">>, <<"U+D805", "U+DE3D">>, <<"U+D805", "U+DE3F">>, <<"U+D805", "U+DE40">>,
     <<"U+D805", "U+DEAB">>, <<"U+D805", "U+DEAD">>, <<"U+D805", "U+DEB0">>, <<"U+D805", "U+DEB1">>,
     <<"U+D805", "U+DEB2">>, <<"U+D805", "U+DEB3">>, <<"U+D805", "U+DEB4">>, <<"U+D805", "U+DEB5">>,
     <<"U+D805", "U+DEB7">>, <<"U+D805", "U+DF1D">>, <<"U+D805", "U+DF1F">>, <<"U+D805", "U+DF22">>,
     <<"U+D805", "U+DF23">>, <<"U+D805", "U+DF24">>, <<"U+D805", "U+DF25">>, <<"U+D805", "U+DF27">>,
     <<"U+D805", "U+DF28">>, <<"U+D805", "U+DF29">>, <<"U+D805", "U+DF2A">>, <<"U+D805", "U+DF2B">>,
     <<"U+D806", "U+DC2F">>, <<"U+D806", "U+DC30">>, <<"U+D806", "U+DC31">>, <<"U+D806", "U+DC32">>,
     <<"U+D806", "U+DC33">>, <<"U+D806", "U+DC34">>, <<"U+D806", "U+DC35">>, <<"U+D806", "U+DC36">>,
     <<"U+D806", "U+DC37">>, <<"U+D806", "U+DC39">>, <<"U+D806", "U+DC3A">>, <<"U+D806", "U+DD3B">>,
     <<"U+D806", "U+DD3C">>, <<"U+D806", "U+DD3E">>, <<"U+D806", "U+DD43">>, <<"U+D806", "U+DDD4">>,
     <<"U+D806", "U+DDD5">>, <<"U+D806", "U+DDD6">>, <<"U+D806", "U+DDD7">>, <<"U+D806", "U+DDDA">>,
     <<"U+D806", "U+DDDB">>, <<"U+D806", "U+DDE0">>, <<"U+D806", "U+DE01">>, <<"U+D806", "U+DE02">>,
     <<"U+D806", "U+DE03">>, <<"U+D806", "U+DE04">>, <<"U+D806", "U+DE05">>, <<"U+D806", "U+DE06">>,
     <<"U+D806", "U+DE07">>, <<"U+D806", "U+DE08">>, <<"U+D806", "U+DE09">>, <<"U+D806", "U+DE0A">>,
     <<"U+D806", "U+DE33">>, <<"U+D806", "U+DE34">>, <<"U+D806", "U+DE35">>, <<"U+D806", "U+DE36">>,
     <<"U+D806", "U+DE37">>, <<"U+D806", "U+DE38">>, <<"U+D806", "U+DE3B">>, <<"U+D806", "U+DE3C">>,
     <<"U+D806", "U+DE3D">>, <<"U+D806", "U+DE3E">>, <<"U+D806", "U+DE47">>, <<"U+D806", "U+DE51">>,
     <<"U+D806", "U+DE52">>, <<"U+D806", "U+DE53">>, <<"U+D806", "U+DE54">>, <<"U+D806", "U+DE55">>,
     <<"U+D806", "U+DE56">>, <<"U+D806", "U+DE59">>, <<"U+D806", "U+DE5A">>, <<"U+D806", "U+DE5B">>,
     <<"U+D806", "U+DE8A">>, <<"U+D806", "U+DE8B">>, <<"U+D806", "U+DE8C">>, <<"U+D806", "U+DE8D">>,
     <<"U+D806", "U+DE8E">>, <<"U+D806", "U+DE8F">>, <<"U+D806", "U+DE90">>, <<"U+D806", "U+DE91">>,
     <<"U+D806", "U+DE92">>, <<"U+D806", "U+DE93">>, <<"U+D806", "U+DE94">>, <<"U+D806", "U+DE95">>,
     <<"U+D806", "U+DE96">>, <<"U+D806", "U+DE98">>, <<"U+D806", "U+DE99">>, <<"U+D806", "U+DF60">>,
     <<"U+D806", "U+DF62">>, <<"U+D806", "U+DF63">>, <<"U+D806", "U+DF64">>, <<"U+D806", "U+DF66">>,
     <<"U+D807", "U+DC30">>, <<"U+D807", "U+DC31">>, <<"U+D807", "U+DC32">>, <<"U+D807", "U+DC33">>,
     <<"U+D807", "U+DC34">>, <<"U+D807", "U+DC35">>, <<"U+D807", "U+DC36">>, <<"U+D807", "U+DC38">>,
     <<"U+D807", "U+DC39">>, <<"U+D807", "U+DC3A">>, <<"U+D807", "U+DC3B">>, <<"U+D807", "U+DC3C">>,
     <<"U+D807", "U+DC3D">>, <<"U+D807", "U+DC3F">>, <<"U+D807", "U+DC92">>, <<"U+D807", "U+DC93">>,
     <<"U+D807", "U+DC94">>, <<"U+D807", "U+DC95">>, <<"U+D807", "U+DC96">>, <<"U+D807", "U+DC97">>,
     <<"U+D807", "U+DC98">>, <<"U+D807", "U+DC99">>, <<"U+D807", "U+DC9A">>, <<"U+D807", "U+DC9B">>,
     <<"U+D807", "U+DC9C">>, <<"U+D807", "U+DC9D">>, <<"U+D807", "U+DC9E">>, <<"U+D807", "U+DC9F">>,
     <<"U+D807", "U+DCA0">>, <<"U+D807", "U+DCA1">>, <<"U+D807", "U+DCA2">>, <<"U+D807", "U+DCA3">>,
     <<"U+D807", "U+DCA4">>, <<"U+D807", "U+DCA5">>, <<"U+D807", "U+DCA6">>, <<"U+D807", "U+DCA7">>,
     <<"U+D807", "U+DCAA">>, <<"U+D807", "U+DCAB">>, <<"U+D807", "U+DCAC">>, <<"U+D807", "U+DCAD">>,
     <<"U+D807", "U+DCAE">>, <<"U+D807", "U+DCAF">>, <<"U+D807", "U+DCB0">>, <<"U+D807", "U+DCB2">>,
     <<"U+D807", "U+DCB3">>, <<"U+D807", "U+DCB5">>, <<"U+D807", "U+DCB6">>, <<"U+D807", "U+DD31">>,
     <<"U+D807", "U+DD32">>, <<"U+D807", "U+DD33">>, <<"U+D807", "U+DD34">>, <<"U+D807", "U+DD35">>,
     <<"U+D807", "U+DD36">>, <<"U+D807", "U+DD3A">>, <<"U+D807", "U+DD3C">>, <<"U+D807", "U+DD3D">>,
     <<"U+D807", "U+DD3F">>, <<"U+D807", "U+DD40">>, <<"U+D807", "U+DD41">>, <<"U+D807", "U+DD42">>,
     <<"U+D807", "U+DD43">>, <<"U+D807", "U+DD44">>, <<"U+D807", "U+DD45">>, <<"U+D807", "U+DD47">>,
     <<"U+D807", "U+DD90">>, <<"U+D807", "U+DD91">>, <<"U+D807", "U+DD95">>, <<"U+D807", "U+DD97">>,
     <<"U+D807", "U+DDD9">>, <<"U+D807", "U+DEF3">>, <<"U+D807", "U+DEF4">>, <<"U+D807", "U+DF00">>,
     <<"U+D807", "U+DF01">>, <<"U+D807", "U+DF36">>, <<"U+D807", "U+DF37">>, <<"U+D807", "U+DF38">>,
     <<"U+D807", "U+DF39">>, <<"U+D807", "U+DF3A">>, <<"U+D807", "U+DF40">>, <<"U+D807", "U+DF42">>,
     <<"U+D807", "U+DF5A">>, <<"U+D80D", "U+DC30">>, <<"U+D80D", "U+DC31">>, <<"U+D80D", "U+DC32">>,
     <<"U+D80D", "U+DC33">>, <<"U+D80D", "U+DC34">>, <<"U+D80D", "U+DC35">>, <<"U+D80D", "U+DC36">>,
     <<"U+D80D", "U+DC37">>, <<"U+D80D", "U+DC38">>, <<"U+D80D", "U+DC39">>, <<"U+D80D", "U+DC3A">>,
     <<"U+D80D", "U+DC3B">>, <<"U+D80D", "U+DC3C">>, <<"U+D80D", "U+DC3D">>, <<"U+D80D", "U+DC3E">>,
     <<"U+D80D", "U+DC3F">>, <<"U+D80D", "U+DC40">>, <<"U+D80D", "U+DC47">>, <<"U+D80D", "U+DC48">>,
     <<"U+D80D", "U+DC49">>, <<"U+D80D", "U+DC4A">>, <<"U+D80D", "U+DC4B">>, <<"U+D80D", "U+DC4C">>,
     <<"U+D80D", "U+DC4D">>, <<"U+D80D", "U+DC4E">>, <<"U+D80D", "U+DC4F">>, <<"U+D80D", "U+DC50">>,
     <<"U+D80D", "U+DC51">>, <<"U+D80D", "U+DC52">>, <<"U+D80D", "U+DC53">>, <<"U+D80D", "U+DC54">>,
     <<"U+D80D", "U+DC55">>, <<"U+D818", "U+DD1E">>, <<"U+D818", "U+DD1F">>, <<"U+D818", "U+DD20">>,
     <<"U+D818", "U+DD21">>, <<"U+D818", "U+DD22">>, <<"U+D818", "U+DD23">>, <<"U+D818", "U+DD24">>,
     <<"U+D818", "U+DD25">>, <<"U+D818", "U+DD26">>, <<"U+D818", "U+DD27">>, <<"U+D818", "U+DD28">>,
     <<"U+D818", "U+DD29">>, <<"U+D818", "U+DD2D">>, <<"U+D818", "U+DD2E">>, <<"U+D818", "U+DD2F">>,
     <<"U+D81A", "U+DEF0">>, <<"U+D81A", "U+DEF1">>, <<"U+D81A", "U+DEF2">>, <<"U+D81A", "U+DEF3">>,
     <<"U+D81A", "U+DEF4">>, <<"U+D81A", "U+DF30">>, <<"U+D81A", "U+DF31">>, <<"U+D81A", "U+DF32">>,
     <<"U+D81A", "U+DF33">>, <<"U+D81A", "U+DF34">>, <<"U+D81A", "U+DF35">>, <<"U+D81A", "U+DF36">>,
     <<"U+D81A", "U+DF40">>, <<"U+D81A", "U+DF41">>, <<"U+D81A", "U+DF42">>, <<"U+D81A", "U+DF43">>,
     <<"U+D81B", "U+DD40">>, <<"U+D81B", "U+DD41">>, <<"U+D81B", "U+DD42">>, <<"U+D81B", "U+DD6B">>,
     <<"U+D81B", "U+DD6C">>, <<"U+D81B", "U+DF4F">>, <<"U+D81B", "U+DF8F">>, <<"U+D81B", "U+DF90">>,
     <<"U+D81B", "U+DF91">>, <<"U+D81B", "U+DF92">>, <<"U+D81B", "U+DF93">>, <<"U+D81B", "U+DF94">>,
     <<"U+D81B", "U+DF95">>, <<"U+D81B", "U+DF96">>, <<"U+D81B", "U+DF97">>, <<"U+D81B", "U+DF98">>,
     <<"U+D81B", "U+DF99">>, <<"U+D81B", "U+DF9A">>, <<"U+D81B", "U+DF9B">>, <<"U+D81B", "U+DF9C">>,
     <<"U+D81B", "U+DF9D">>, <<"U+D81B", "U+DF9E">>, <<"U+D81B", "U+DF9F">>, <<"U+D81B", "U+DFE0">>,
     <<"U+D81B", "U+DFE1">>, <<"U+D81B", "U+DFE3">>, <<"U+D81B", "U+DFE4">>, <<"U+D81B", "U+DFF2">>,
     <<"U+D81B", "U+DFF3">>, <<"U+D82B", "U+DFF0">>, <<"U+D82B", "U+DFF1">>, <<"U+D82B", "U+DFF2">>,
     <<"U+D82B", "U+DFF3">>, <<"U+D82B", "U+DFF5">>, <<"U+D82B", "U+DFF6">>, <<"U+D82B", "U+DFF7">>,
     <<"U+D82B", "U+DFF8">>, <<"U+D82B", "U+DFF9">>, <<"U+D82B", "U+DFFA">>, <<"U+D82B", "U+DFFB">>,
     <<"U+D82B", "U+DFFD">>, <<"U+D82B", "U+DFFE">>, <<"U+D82F", "U+DC9D">>, <<"U+D82F", "U+DC9E">>,
     <<"U+D82F", "U+DCA0">>, <<"U+D82F", "U+DCA1">>, <<"U+D82F", "U+DCA2">>, <<"U+D82F", "U+DCA3">>,
     <<"U+D833", "U+DF00">>, <<"U+D833", "U+DF01">>, <<"U+D833", "U+DF02">>, <<"U+D833", "U+DF03">>,
     <<"U+D833", "U+DF04">>, <<"U+D833", "U+DF05">>, <<"U+D833", "U+DF06">>, <<"U+D833", "U+DF07">>,
     <<"U+D833", "U+DF08">>, <<"U+D833", "U+DF09">>, <<"U+D833", "U+DF0A">>, <<"U+D833", "U+DF0B">>,
     <<"U+D833", "U+DF0C">>, <<"U+D833", "U+DF0D">>, <<"U+D833", "U+DF0E">>, <<"U+D833", "U+DF0F">>,
     <<"U+D833", "U+DF10">>, <<"U+D833", "U+DF11">>, <<"U+D833", "U+DF12">>, <<"U+D833", "U+DF13">>,
     <<"U+D833", "U+DF14">>, <<"U+D833", "U+DF15">>, <<"U+D833", "U+DF16">>, <<"U+D833", "U+DF17">>,
     <<"U+D833", "U+DF18">>, <<"U+D833", "U+DF19">>, <<"U+D833", "U+DF1A">>, <<"U+D833", "U+DF1B">>,
     <<"U+D833", "U+DF1C">>, <<"U+D833", "U+DF1D">>, <<"U+D833", "U+DF1E">>, <<"U+D833", "U+DF1F">>,
     <<"U+D833", "U+DF20">>, <<"U+D833", "U+DF21">>, <<"U+D833", "U+DF22">>, <<"U+D833", "U+DF23">>,
     <<"U+D833", "U+DF24">>, <<"U+D833", "U+DF25">>, <<"U+D833", "U+DF26">>, <<"U+D833", "U+DF27">>,
     <<"U+D833", "U+DF28">>, <<"U+D833", "U+DF29">>, <<"U+D833", "U+DF2A">>, <<"U+D833", "U+DF2B">>,
     <<"U+D833", "U+DF2C">>, <<"U+D833", "U+DF2D">>, <<"U+D833", "U+DF30">>, <<"U+D833", "U+DF31">>,
     <<"U+D833", "U+DF32">>, <<"U+D833", "U+DF33">>, <<"U+D833", "U+DF34">>, <<"U+D833", "U+DF35">>,
     <<"U+D833", "U+DF36">>, <<"U+D833", "U+DF37">>, <<"U+D833", "U+DF38">>, <<"U+D833", "U+DF39">>,
     <<"U+D833", "U+DF3A">>, <<"U+D833", "U+DF3B">>, <<"U+D833", "U+DF3C">>, <<"U+D833", "U+DF3D">>,
     <<"U+D833", "U+DF3E">>, <<"U+D833", "U+DF3F">>, <<"U+D833", "U+DF40">>, <<"U+D833", "U+DF41">>,
     <<"U+D833", "U+DF42">>, <<"U+D833", "U+DF43">>, <<"U+D833", "U+DF44">>, <<"U+D833", "U+DF45">>,
     <<"U+D833", "U+DF46">>, <<"U+D834", "U+DD67">>, <<"U+D834", "U+DD68">>, <<"U+D834", "U+DD69">>,
     <<"U+D834", "U+DD73">>, <<"U+D834", "U+DD74">>, <<"U+D834", "U+DD75">>, <<"U+D834", "U+DD76">>,
     <<"U+D834", "U+DD77">>, <<"U+D834", "U+DD78">>, <<"U+D834", "U+DD79">>, <<"U+D834", "U+DD7A">>,
     <<"U+D834", "U+DD7B">>, <<"U+D834", "U+DD7C">>, <<"U+D834", "U+DD7D">>, <<"U+D834", "U+DD7E">>,
     <<"U+D834", "U+DD7F">>, <<"U+D834", "U+DD80">>, <<"U+D834", "U+DD81">>, <<"U+D834", "U+DD82">>,
     <<"U+D834", "U+DD85">>, <<"U+D834", "U+DD86">>, <<"U+D834", "U+DD87">>, <<"U+D834", "U+DD88">>,
     <<"U+D834", "U+DD89">>, <<"U+D834", "U+DD8A">>, <<"U+D834", "U+DD8B">>, <<"U+D834", "U+DDAA">>,
     <<"U+D834", "U+DDAB">>, <<"U+D834", "U+DDAC">>, <<"U+D834", "U+DDAD">>, <<"U+D834", "U+DE42">>,
     <<"U+D834", "U+DE43">>, <<"U+D834", "U+DE44">>, <<"U+D836", "U+DE00">>, <<"U+D836", "U+DE01">>,
     <<"U+D836", "U+DE02">>, <<"U+D836", "U+DE03">>, <<"U+D836", "U+DE04">>, <<"U+D836", "U+DE05">>,
     <<"U+D836", "U+DE06">>, <<"U+D836", "U+DE07">>, <<"U+D836", "U+DE08">>, <<"U+D836", "U+DE09">>,
     <<"U+D836", "U+DE0A">>, <<"U+D836", "U+DE0B">>, <<"U+D836", "U+DE0C">>, <<"U+D836", "U+DE0D">>,
     <<"U+D836", "U+DE0E">>, <<"U+D836", "U+DE0F">>, <<"U+D836", "U+DE10">>, <<"U+D836", "U+DE11">>,
     <<"U+D836", "U+DE12">>, <<"U+D836", "U+DE13">>, <<"U+D836", "U+DE14">>, <<"U+D836", "U+DE15">>,
     <<"U+D836", "U+DE16">>, <<"U+D836", "U+DE17">>, <<"U+D836", "U+DE18">>, <<"U+D836", "U+DE19">>,
     <<"U+D836", "U+DE1A">>, <<"U+D836", "U+DE1B">>, <<"U+D836", "U+DE1C">>, <<"U+D836", "U+DE1D">>,
     <<"U+D836", "U+DE1E">>, <<"U+D836", "U+DE1F">>, <<"U+D836", "U+DE20">>, <<"U+D836", "U+DE21">>,
     <<"U+D836", "U+DE22">>, <<"U+D836", "U+DE23">>, <<"U+D836", "U+DE24">>, <<"U+D836", "U+DE25">>,
     <<"U+D836", "U+DE26">>, <<"U+D836", "U+DE27">>, <<"U+D836", "U+DE28">>, <<"U+D836", "U+DE29">>,
     <<"U+D836", "U+DE2A">>, <<"U+D836", "U+DE2B">>, <<"U+D836", "U+DE2C">>, <<"U+D836", "U+DE2D">>,
     <<"U+D836", "U+DE2E">>, <<"U+D836", "U+DE2F">>, <<"U+D836", "U+DE30">>, <<"U+D836", "U+DE31">>,
     <<"U+D836", "U+DE32">>, <<"U+D836", "U+DE33">>, <<"U+D836", "U+DE34">>, <<"U+D836", "U+DE35">>,
     <<"U+D836", "U+DE36">>, <<"U+D836", "U+DE3B">>, <<"U+D836", "U+DE3C">>, <<"U+D836", "U+DE3D">>,
     <<"U+D836", "U+DE3E">>, <<"U+D836", "U+DE3F">>, <<"U+D836", "U+DE40">>, <<"U+D836", "U+DE41">>,
     <<"U+D836", "U+DE42">>, <<"U+D836", "U+DE43">>, <<"U+D836", "U+DE44">>, <<"U+D836", "U+DE45">>,
     <<"U+D836", "U+DE46">>, <<"U+D836", "U+DE47">>, <<"U+D836", "U+DE48">>, <<"U+D836", "U+DE49">>,
     <<"U+D836", "U+DE4A">>, <<"U+D836", "U+DE4B">>, <<"U+D836", "U+DE4C">>, <<"U+D836", "U+DE4D">>,
     <<"U+D836", "U+DE4E">>, <<"U+D836", "U+DE4F">>, <<"U+D836", "U+DE50">>, <<"U+D836", "U+DE51">>,
     <<"U+D836", "U+DE52">>, <<"U+D836", "U+DE53">>, <<"U+D836", "U+DE54">>, <<"U+D836", "U+DE55">>,
     <<"U+D836", "U+DE56">>, <<"U+D836", "U+DE57">>, <<"U+D836", "U+DE58">>, <<"U+D836", "U+DE59">>,
     <<"U+D836", "U+DE5A">>, <<"U+D836", "U+DE5B">>, <<"U+D836", "U+DE5C">>, <<"U+D836", "U+DE5D">>,
     <<"U+D836", "U+DE5E">>, <<"U+D836", "U+DE5F">>, <<"U+D836", "U+DE60">>, <<"U+D836", "U+DE61">>,
     <<"U+D836", "U+DE62">>, <<"U+D836", "U+DE63">>, <<"U+D836", "U+DE64">>, <<"U+D836", "U+DE65">>,
     <<"U+D836", "U+DE66">>, <<"U+D836", "U+DE67">>, <<"U+D836", "U+DE68">>, <<"U+D836", "U+DE69">>,
     <<"U+D836", "U+DE6A">>, <<"U+D836", "U+DE6B">>, <<"U+D836", "U+DE6C">>, <<"U+D836", "U+DE75">>,
     <<"U+D836", "U+DE84">>, <<"U+D836", "U+DE9B">>, <<"U+D836", "U+DE9C">>, <<"U+D836", "U+DE9D">>,
     <<"U+D836", "U+DE9E">>, <<"U+D836", "U+DE9F">>, <<"U+D836", "U+DEA1">>, <<"U+D836", "U+DEA2">>,
     <<"U+D836", "U+DEA3">>, <<"U+D836", "U+DEA4">>, <<"U+D836", "U+DEA5">>, <<"U+D836", "U+DEA6">>,
     <<"U+D836", "U+DEA7">>, <<"U+D836", "U+DEA8">>, <<"U+D836", "U+DEA9">>, <<"U+D836", "U+DEAA">>,
     <<"U+D836", "U+DEAB">>, <<"U+D836", "U+DEAC">>, <<"U+D836", "U+DEAD">>, <<"U+D836", "U+DEAE">>,
     <<"U+D836", "U+DEAF">>, <<"U+D838", "U+DC00">>, <<"U+D838", "U+DC01">>, <<"U+D838", "U+DC02">>,
     <<"U+D838", "U+DC03">>, <<"U+D838", "U+DC04">>, <<"U+D838", "U+DC05">>, <<"U+D838", "U+DC06">>,
     <<"U+D838", "U+DC08">>, <<"U+D838", "U+DC09">>, <<"U+D838", "U+DC0A">>, <<"U+D838", "U+DC0B">>,
     <<"U+D838", "U+DC0C">>, <<"U+D838", "U+DC0D">>, <<"U+D838", "U+DC0E">>, <<"U+D838", "U+DC0F">>,
     <<"U+D838", "U+DC10">>, <<"U+D838", "U+DC11">>, <<"U+D838", "U+DC12">>, <<"U+D838", "U+DC13">>,
     <<"U+D838", "U+DC14">>, <<"U+D838", "U+DC15">>, <<"U+D838", "U+DC16">>, <<"U+D838", "U+DC17">>,
     <<"U+D838", "U+DC18">>, <<"U+D838", "U+DC1B">>, <<"U+D838", "U+DC1C">>, <<"U+D838", "U+DC1D">>,
     <<"U+D838", "U+DC1E">>, <<"U+D838", "U+DC1F">>, <<"U+D838", "U+DC20">>, <<"U+D838", "U+DC21">>,
     <<"U+D838", "U+DC23">>, <<"U+D838", "U+DC24">>, <<"U+D838", "U+DC26">>, <<"U+D838", "U+DC27">>,
     <<"U+D838", "U+DC28">>, <<"U+D838", "U+DC29">>, <<"U+D838", "U+DC2A">>, <<"U+D838", "U+DC30">>,
     <<"U+D838", "U+DC31">>, <<"U+D838", "U+DC32">>, <<"U+D838", "U+DC33">>, <<"U+D838", "U+DC34">>,
     <<"U+D838", "U+DC35">>, <<"U+D838", "U+DC36">>, <<"U+D838", "U+DC37">>, <<"U+D838", "U+DC38">>,
     <<"U+D838", "U+DC39">>, <<"U+D838", "U+DC3A">>, <<"U+D838", "U+DC3B">>, <<"U+D838", "U+DC3C">>,
     <<"U+D838", "U+DC3D">>, <<"U+D838", "U+DC3E">>, <<"U+D838", "U+DC3F">>, <<"U+D838", "U+DC40">>,
     <<"U+D838", "U+DC41">>, <<"U+D838", "U+DC42">>, <<"U+D838", "U+DC43">>, <<"U+D838", "U+DC44">>,
     <<"U+D838", "U+DC45">>, <<"U+D838", "U+DC46">>, <<"U+D838", "U+DC47">>, <<"U+D838", "U+DC48">>,
     <<"U+D838", "U+DC49">>, <<"U+D838", "U+DC4A">>, <<"U+D838", "U+DC4B">>, <<"U+D838", "U+DC4C">>,
     <<"U+D838", "U+DC4D">>, <<"U+D838", "U+DC4E">>, <<"U+D838", "U+DC4F">>, <<"U+D838", "U+DC50">>,
     <<"U+D838", "U+DC51">>, <<"U+D838", "U+DC52">>, <<"U+D838", "U+DC53">>, <<"U+D838", "U+DC54">>,
     <<"U+D838", "U+DC55">>, <<"U+D838", "U+DC56">>, <<"U+D838", "U+DC57">>, <<"U+D838", "U+DC58">>,
     <<"U+D838", "U+DC59">>, <<"U+D838", "U+DC5A">>, <<"U+D838", "U+DC5B">>, <<"U+D838", "U+DC5C">>,
     <<"U+D838", "U+DC5D">>, <<"U+D838", "U+DC5E">>, <<"U+D838", "U+DC5F">>, <<"U+D838", "U+DC60">>,
     <<"U+D838", "U+DC61">>, <<"U+D838", "U+DC62">>, <<"U+D838", "U+DC63">>, <<"U+D838", "U+DC64">>,
     <<"U+D838", "U+DC65">>, <<"U+D838", "U+DC66">>, <<"U+D838", "U+DC67">>, <<"U+D838", "U+DC68">>,
     <<"U+D838", "U+DC69">>, <<"U+D838", "U+DC6A">>, <<"U+D838", "U+DC6B">>, <<"U+D838", "U+DC6C">>,
     <<"U+D838", "U+DC6D">>, <<"U+D838", "U+DC8F">>, <<"U+D838", "U+DD30">>, <<"U+D838", "U+DD31">>,
     <<"U+D838", "U+DD32">>, <<"U+D838", "U+DD33">>, <<"U+D838", "U+DD34">>, <<"U+D838", "U+DD35">>,
     <<"U+D838", "U+DD36">>, <<"U+D838", "U+DD37">>, <<"U+D838", "U+DD38">>, <<"U+D838", "U+DD39">>,
     <<"U+D838", "U+DD3A">>, <<"U+D838", "U+DD3B">>, <<"U+D838", "U+DD3C">>, <<"U+D838", "U+DD3D">>,
     <<"U+D838", "U+DEAE">>, <<"U+D838", "U+DEEC">>, <<"U+D838", "U+DEED">>, <<"U+D838", "U+DEEE">>,
     <<"U+D838", "U+DEEF">>, <<"U+D839", "U+DCEB">>, <<"U+D839", "U+DCEC">>, <<"U+D839", "U+DCED">>,
     <<"U+D839", "U+DCEE">>, <<"U+D839", "U+DCEF">>, <<"U+D839", "U+DDEE">>, <<"U+D839", "U+DDEF">>,
     <<"U+D839", "U+DEE3">>, <<"U+D839", "U+DEE6">>, <<"U+D839", "U+DEEE">>, <<"U+D839", "U+DEEF">>,
     <<"U+D839", "U+DEF5">>, <<"U+D839", "U+DEFF">>, <<"U+D83A", "U+DCD0">>, <<"U+D83A", "U+DCD1">>,
     <<"U+D83A", "U+DCD2">>, <<"U+D83A", "U+DCD3">>, <<"U+D83A", "U+DCD4">>, <<"U+D83A", "U+DCD5">>,
     <<"U+D83A", "U+DCD6">>, <<"U+D83A", "U+DD44">>, <<"U+D83A", "U+DD45">>, <<"U+D83A", "U+DD46">>,
     <<"U+D83A", "U+DD47">>, <<"U+D83A", "U+DD48">>, <<"U+D83A", "U+DD49">>, <<"U+D83A", "U+DD4A">>,
     <<"U+D83A", "U+DD4B">>, <<"U+D83C", "U+DFFB">>, <<"U+D83C", "U+DFFC">>, <<"U+D83C", "U+DFFD">>,
     <<"U+D83C", "U+DFFE">>, <<"U+D83C", "U+DFFF">>, <<"U+DB40", "U+DC01">>, <<"U+DB40", "U+DC20">>,
     <<"U+DB40", "U+DC21">>, <<"U+DB40", "U+DC22">>, <<"U+DB40", "U+DC23">>, <<"U+DB40", "U+DC24">>,
     <<"U+DB40", "U+DC25">>, <<"U+DB40", "U+DC26">>, <<"U+DB40", "U+DC27">>, <<"U+DB40", "U+DC28">>,
     <<"U+DB40", "U+DC29">>, <<"U+DB40", "U+DC2A">>, <<"U+DB40", "U+DC2B">>, <<"U+DB40", "U+DC2C">>,
     <<"U+DB40", "U+DC2D">>, <<"U+DB40", "U+DC2E">>, <<"U+DB40", "U+DC2F">>, <<"U+DB40", "U+DC30">>,
     <<"U+DB40", "U+DC31">>, <<"U+DB40", "U+DC32">>, <<"U+DB40", "U+DC33">>, <<"U+DB40", "U+DC34">>,
     <<"U+DB40", "U+DC35">>, <<"U+DB40", "U+DC36">>, <<"U+DB40", "U+DC37">>, <<"U+DB40", "U+DC38">>,
     <<"U+DB40", "U+DC39">>, <<"U+DB40", "U+DC3A">>, <<"U+DB40", "U+DC3B">>, <<"U+DB40", "U+DC3C">>,
     <<"U+DB40", "U+DC3D">>, <<"U+DB40", "U+DC3E">>, <<"U+DB40", "U+DC3F">>, <<"U+DB40", "U+DC40">>,
     <<"U+DB40", "U+DC41">>, <<"U+DB40", "U+DC42">>, <<"U+DB40", "U+DC43">>, <<"U+DB40", "U+DC44">>,
     <<"U+DB40", "U+DC45">>, <<"U+DB40", "U+DC46">>, <<"U+DB40", "U+DC47">>, <<"U+DB40", "U+DC48">>,
     <<"U+DB40", "U+DC49">>, <<"U+DB40", "U+DC4A">>, <<"U+DB40", "U+DC4B">>, <<"U+DB40", "U+DC4C">>,
     <<"U+DB40", "U+DC4D">>, <<"U+DB40", "U+DC4E">>, <<"U+DB40", "U+DC4F">>, <<"U+DB40", "U+DC50">>,
     <<"U+DB40", "U+DC51">>, <<"U+DB40", "U+DC52">>, <<"U+DB40", "U+DC53">>, <<"U+DB40", "U+DC54">>,
     <<"U+DB40", "U+DC55">>, <<"U+DB40", "U+DC56">>, <<"U+DB40", "U+DC57">>, <<"U+DB40", "U+DC58">>,
     <<"U+DB40", "U+DC59">>, <<"U+DB40", "U+DC5A">>, <<"U+DB40", "U+DC5B">>, <<"U+DB40", "U+DC5C">>,
     <<"U+DB40", "U+DC5D">>, <<"U+DB40", "U+DC5E">>, <<"U+DB40", "U+DC5F">>, <<"U+DB40", "U+DC60">>,
     <<"U+DB40", "U+DC61">>, <<"U+DB40", "U+DC62">>, <<"U+DB40", "U+DC63">>, <<"U+DB40", "U+DC64">>,
     <<"U+DB40", "U+DC65">>, <<"U+DB40", "U+DC66">>, <<"U+DB40", "U+DC67">>, <<"U+DB40", "U+DC68">>,
     <<"U+DB40", "U+DC69">>, <<"U+DB40", "U+DC6A">>, <<"U+DB40", "U+DC6B">>, <<"U+DB40", "U+DC6C">>,
     <<"U+DB40", "U+DC6D">>, <<"U+DB40", "U+DC6E">>, <<"U+DB40", "U+DC6F">>, <<"U+DB40", "U+DC70">>,
     <<"U+DB40", "U+DC71">>, <<"U+DB40", "U+DC72">>, <<"U+DB40", "U+DC73">>, <<"U+DB40", "U+DC74">>,
     <<"U+DB40", "U+DC75">>, <<"U+DB40", "U+DC76">>, <<"U+DB40", "U+DC77">>, <<"U+DB40", "U+DC78">>,
     <<"U+DB40", "U+DC79">>, <<"U+DB40", "U+DC7A">>, <<"U+DB40", "U+DC7B">>, <<"U+DB40", "U+DC7C">>,
     <<"U+DB40", "U+DC7D">>, <<"U+DB40", "U+DC7E">>, <<"U+DB40", "U+DC7F">>, <<"U+DB40", "U+DD00">>,
     <<"U+DB40", "U+DD01">>, <<"U+DB40", "U+DD02">>, <<"U+DB40", "U+DD03">>, <<"U+DB40", "U+DD04">>,
     <<"U+DB40", "U+DD05">>, <<"U+DB40", "U+DD06">>, <<"U+DB40", "U+DD07">>, <<"U+DB40", "U+DD08">>,
     <<"U+DB40", "U+DD09">>, <<"U+DB40", "U+DD0A">>, <<"U+DB40", "U+DD0B">>, <<"U+DB40", "U+DD0C">>,
     <<"U+DB40", "U+DD0D">>, <<"U+DB40", "U+DD0E">>, <<"U+DB40", "U+DD0F">>, <<"U+DB40", "U+DD10">>,
     <<"U+DB40", "U+DD11">>, <<"U+DB40", "U+DD12">>, <<"U+DB40", "U+DD13">>, <<"U+DB40", "U+DD14">>,
     <<"U+DB40", "U+DD15">>, <<"U+DB40", "U+DD16">>, <<"U+DB40", "U+DD17">>, <<"U+DB40", "U+DD18">>,
     <<"U+DB40", "U+DD19">>, <<"U+DB40", "U+DD1A">>, <<"U+DB40", "U+DD1B">>, <<"U+DB40", "U+DD1C">>,
     <<"U+DB40", "U+DD1D">>, <<"U+DB40", "U+DD1E">>, <<"U+DB40", "U+DD1F">>, <<"U+DB40", "U+DD20">>,
     <<"U+DB40", "U+DD21">>, <<"U+DB40", "U+DD22">>, <<"U+DB40", "U+DD23">>, <<"U+DB40", "U+DD24">>,
     <<"U+DB40", "U+DD25">>, <<"U+DB40", "U+DD26">>, <<"U+DB40", "U+DD27">>, <<"U+DB40", "U+DD28">>,
     <<"U+DB40", "U+DD29">>, <<"U+DB40", "U+DD2A">>, <<"U+DB40", "U+DD2B">>, <<"U+DB40", "U+DD2C">>,
     <<"U+DB40", "U+DD2D">>, <<"U+DB40", "U+DD2E">>, <<"U+DB40", "U+DD2F">>, <<"U+DB40", "U+DD30">>,
     <<"U+DB40", "U+DD31">>, <<"U+DB40", "U+DD32">>, <<"U+DB40", "U+DD33">>, <<"U+DB40", "U+DD34">>,
     <<"U+DB40", "U+DD35">>, <<"U+DB40", "U+DD36">>, <<"U+DB40", "U+DD37">>, <<"U+DB40", "U+DD38">>,
     <<"U+DB40", "U+DD39">>, <<"U+DB40", "U+DD3A">>, <<"U+DB40", "U+DD3B">>, <<"U+DB40", "U+DD3C">>,
     <<"U+DB40", "U+DD3D">>, <<"U+DB40", "U+DD3E">>, <<"U+DB40", "U+DD3F">>, <<"U+DB40", "U+DD40">>,
     <<"U+DB40", "U+DD41">>, <<"U+DB40", "U+DD42">>, <<"U+DB40", "U+DD43">>, <<"U+DB40", "U+DD44">>,
     <<"U+DB40", "U+DD45">>, <<"U+DB40", "U+DD46">>, <<"U+DB40", "U+DD47">>, <<"U+DB40", "U+DD48">>,
     <<"U+DB40", "U+DD49">>, <<"U+DB40", "U+DD4A">>, <<"U+DB40", "U+DD4B">>, <<"U+DB40", "U+DD4C">>,
     <<"U+DB40", "U+DD4D">>, <<"U+DB40", "U+DD4E">>, <<"U+DB40", "U+DD4F">>, <<"U+DB40", "U+DD50">>,
     <<"U+DB40", "U+DD51">>, <<"U+DB40", "U+DD52">>, <<"U+DB40", "U+DD53">>, <<"U+DB40", "U+DD54">>,
     <<"U+DB40", "U+DD55">>, <<"U+DB40", "U+DD56">>, <<"U+DB40", "U+DD57">>, <<"U+DB40", "U+DD58">>,
     <<"U+DB40", "U+DD59">>, <<"U+DB40", "U+DD5A">>, <<"U+DB40", "U+DD5B">>, <<"U+DB40", "U+DD5C">>,
     <<"U+DB40", "U+DD5D">>, <<"U+DB40", "U+DD5E">>, <<"U+DB40", "U+DD5F">>, <<"U+DB40", "U+DD60">>,
     <<"U+DB40", "U+DD61">>, <<"U+DB40", "U+DD62">>, <<"U+DB40", "U+DD63">>, <<"U+DB40", "U+DD64">>,
     <<"U+DB40", "U+DD65">>, <<"U+DB40", "U+DD66">>, <<"U+DB40", "U+DD67">>, <<"U+DB40", "U+DD68">>,
     <<"U+DB40", "U+DD69">>, <<"U+DB40", "U+DD6A">>, <<"U+DB40", "U+DD6B">>, <<"U+DB40", "U+DD6C">>,
     <<"U+DB40", "U+DD6D">>, <<"U+DB40", "U+DD6E">>, <<"U+DB40", "U+DD6F">>, <<"U+DB40", "U+DD70">>,
     <<"U+DB40", "U+DD71">>, <<"U+DB40", "U+DD72">>, <<"U+DB40", "U+DD73">>, <<"U+DB40", "U+DD74">>,
     <<"U+DB40", "U+DD75">>, <<"U+DB40", "U+DD76">>, <<"U+DB40", "U+DD77">>, <<"U+DB40", "U+DD78">>,
     <<"U+DB40", "U+DD79">>, <<"U+DB40", "U+DD7A">>, <<"U+DB40", "U+DD7B">>, <<"U+DB40", "U+DD7C">>,
     <<"U+DB40", "U+DD7D">>, <<"U+DB40", "U+DD7E">>, <<"U+DB40", "U+DD7F">>, <<"U+DB40", "U+DD80">>,
     <<"U+DB40", "U+DD81">>, <<"U+DB40", "U+DD82">>, <<"U+DB40", "U+DD83">>, <<"U+DB40", "U+DD84">>,
     <<"U+DB40", "U+DD85">>, <<"U+DB40", "U+DD86">>, <<"U+DB40", "U+DD87">>, <<"U+DB40", "U+DD88">>,
     <<"U+DB40", "U+DD89">>, <<"U+DB40", "U+DD8A">>, <<"U+DB40", "U+DD8B">>, <<"U+DB40", "U+DD8C">>,
     <<"U+DB40", "U+DD8D">>, <<"U+DB40", "U+DD8E">>, <<"U+DB40", "U+DD8F">>, <<"U+DB40", "U+DD90">>,
     <<"U+DB40", "U+DD91">>, <<"U+DB40", "U+DD92">>, <<"U+DB40", "U+DD93">>, <<"U+DB40", "U+DD94">>,
     <<"U+DB40", "U+DD95">>, <<"U+DB40", "U+DD96">>, <<"U+DB40", "U+DD97">>, <<"U+DB40", "U+DD98">>,
     <<"U+DB40", "U+DD99">>, <<"U+DB40", "U+DD9A">>, <<"U+DB40", "U+DD9B">>, <<"U+DB40", "U+DD9C">>,
     <<"U+DB40", "U+DD9D">>, <<"U+DB40", "U+DD9E">>, <<"U+DB40", "U+DD9F">>, <<"U+DB40", "U+DDA0">>,
     <<"U+DB40", "U+DDA1">>, <<"U+DB40", "U+DDA2">>, <<"U+DB40", "U+DDA3">>, <<"U+DB40", "U+DDA4">>,
     <<"U+DB40", "U+DDA5">>, <<"U+DB40", "U+DDA6">>, <<"U+DB40", "U+DDA7">>, <<"U+DB40", "U+DDA8">>,
     <<"U+DB40", "U+DDA9">>, <<"U+DB40", "U+DDAA">>, <<"U+DB40", "U+DDAB">>, <<"U+DB40", "U+DDAC">>,
     <<"U+DB40", "U+DDAD">>, <<"U+DB40", "U+DDAE">>, <<"U+DB40", "U+DDAF">>, <<"U+DB40", "U+DDB0">>,
     <<"U+DB40", "U+DDB1">>, <<"U+DB40", "U+DDB2">>, <<"U+DB40", "U+DDB3">>, <<"U+DB40", "U+DDB4">>,
     <<"U+DB40", "U+DDB5">>, <<"U+DB40", "U+DDB6">>, <<"U+DB40", "U+DDB7">>, <<"U+DB40", "U+DDB8">>,
     <<"U+DB40", "U+DDB9">>, <<"U+DB40", "U+DDBA">>, <<"U+DB40", "U+DDBB">>, <<"U+DB40", "U+DDBC">>,
     <<"U+DB40", "U+DDBD">>, <<"U+DB40", "U+DDBE">>, <<"U+DB40", "U+DDBF">>, <<"U+DB40", "U+DDC0">>,
     <<"U+DB40", "U+DDC1">>, <<"U+DB40", "U+DDC2">>, <<"U+DB40", "U+DDC3">>, <<"U+DB40", "U+DDC4">>,
     <<"U+DB40", "U+DDC5">>, <<"U+DB40", "U+DDC6">>, <<"U+DB40", "U+DDC7">>, <<"U+DB40", "U+DDC8">>,
     <<"U+DB40", "U+DDC9">>, <<"U+DB40", "U+DDCA">>, <<"U+DB40", "U+DDCB">>, <<"U+DB40", "U+DDCC">>,
     <<"U+DB40", "U+DDCD">>, <<"U+DB40", "U+DDCE">>, <<"U+DB40", "U+DDCF">>, <<"U+DB40", "U+DDD0">>,
     <<"U+DB40", "U+DDD1">>, <<"U+DB40", "U+DDD2">>, <<"U+DB40", "U+DDD3">>, <<"U+DB40", "U+DDD4">>,
     <<"U+DB40", "U+DDD5">>, <<"U+DB40", "U+DDD6">>, <<"U+DB40", "U+DDD7">>, <<"U+DB40", "U+DDD8">>,
     <<"U+DB40", "U+DDD9">>, <<"U+DB40", "U+DDDA">>, <<"U+DB40", "U+DDDB">>, <<"U+DB40", "U+DDDC">>,
     <<"U+DB40", "U+DDDD">>, <<"U+DB40", "U+DDDE">>, <<"U+DB40", "U+DDDF">>, <<"U+DB40", "U+DDE0">>,
     <<"U+DB40", "U+DDE1">>, <<"U+DB40", "U+DDE2">>, <<"U+DB40", "U+DDE3">>, <<"U+DB40", "U+DDE4">>,
     <<"U+DB40", "U+DDE5">>, <<"U+DB40", "U+DDE6">>, <<"U+DB40", "U+DDE7">>, <<"U+DB40", "U+DDE8">>,
     <<"U+DB40", "U+DDE9">>, <<"U+DB40", "U+DDEA">>, <<"U+DB40", "U+DDEB">>, <<"U+DB40", "U+DDEC">>,
     <<"U+DB40", "U+DDED">>, <<"U+DB40", "U+DDEE">>, <<"U+DB40", "U+DDEF">>
    }

LowerTable ==
    [c \in {p[1] : p \in LowerPairs} |-> (CHOOSE p \in LowerPairs : p[1] = c)[2]]

AstralLowerTable ==
    [c \in {p[1] : p \in AstralLowerPairs} |->
        (CHOOSE p \in AstralLowerPairs : p[1] = c)[2]]

\* the lowercase of a code unit that is mapped by itself
lowerUnit(c) ==
    IF \E i \in 1..Len(UpperChars) : UpperChars[i] = c
    THEN LowerChars[CHOOSE i \in 1..Len(UpperChars) : UpperChars[i] = c]
    ELSE IF \E i \in 1..Len(LowerChars) : LowerChars[i] = c
    THEN c
    ELSE IF c \in DOMAIN LowerTable
    THEN LowerTable[c]
    ELSE c

\* String.prototype.toLowerCase of the one-character string c: "I" with a
\* dot above becomes "i" followed by the combining dot
LowerChar(c) ==
    IF c = "U+0130" THEN <<"i", "U+0307">> ELSE <<lowerUnit(c)>>

\* the code units whose lowercase depends on their neighbours or is longer
\* than one unit: capital sigma, "I" with a dot above, and the high
\* surrogates of the letters outside the BMP
ContextUnits == {"Σ", "U+0130"} \cup {p[1][1] : p \in AstralLowerPairs}

\* a cased letter comes before position j, case-ignorable characters skipped
RECURSIVE casedBefore(_, _)
casedBefore(s, j) ==
    IF j < 1 THEN FALSE
    ELSE IF j > 1 /\ <<s[j - 1], s[j]>> \in AstralCaseIgnorable
    THEN casedBefore(s, j - 2)
    ELSE IF j > 1 /\ <<s[j - 1], s[j]>> \in AstralCased
    THEN TRUE
    ELSE IF s[j] \in CaseIgnorable
    THEN casedBefore(s, j - 1)
    ELSE s[j] \in Cased

\* a cased letter comes after position j, case-ignorable characters skipped
RECURSIVE casedAfter(_, _)
casedAfter(s, j) ==
    IF j > Len(s) THEN FALSE
    ELSE IF j < Len(s) /\ <<s[j], s[j + 1]>> \in AstralCaseIgnorable
    THEN casedAfter(s, j + 2)
    ELSE IF j < Len(s) /\ <<s[j], s[j + 1]>> \in AstralCased
    THEN TRUE
    ELSE IF s[j] \in CaseIgnorable
    THEN casedAfter(s, j + 1)
    ELSE s[j] \in Cased

\* the Final_Sigma condition of the Unicode special casing, at position i
finalSigma(s, i) == casedBefore(s, i - 1) /\ ~casedAfter(s, i + 1)

\* the lowercase of s from position i on
RECURSIVE lowerFrom(_, _)
lowerFrom(s, i) ==
    IF i > Len(s) THEN << >>
    ELSE IF i < Len(s) /\ <<s[i], s[i + 1]>> \in DOMAIN AstralLowerTable
    THEN AstralLowerTable[<<s[i], s[i + 1]>>] \o lowerFrom(s, i + 2)
    ELSE IF s[i] = "Σ" /\ finalSigma(s, i)
    THEN <<"ς">> \o lowerFrom(s, i + 1)
    ELSE LowerChar(s[i]) \o lowerFrom(s, i + 1)

\* String.prototype.toLowerCase
toLowerCase(s) ==
    IF \A i \in 1..Len(s) : s[i] \notin ContextUnits
    THEN [i \in 1..Len(s) |-> lowerUnit(s[i])]
    ELSE lowerFrom(s, 1)

\* the characters \s matches and trim() strips: tab, line feed, vertical tab,
\* form feed, carriage return, space, U+00A0, U+1680, U+2000 to U+200A,
\* U+2028, U+2029, U+202F, U+205F, U+3000 and U+FEFF
WhiteSpace ==
    {"\t", "\n", "", "\f", "\r", " ", " ", " ",
     "U+2000", "U+2001", "U+2002", "U+2003", "U+2004", "U+2005", "U+2006",
     "U+2007", "U+2008", "U+2009", "U+200A", "U+2028", "U+2029", "U+202F",
     "U+205F", "U+3000", "﻿"}

\* String.prototype.trim
trim(s) ==
    LET keep == {i \in 1..Len(s) : s[i] \notin WhiteSpace}
    IN IF keep = {} THEN << >>
       ELSE SubSeq(s, CHOOSE i \in keep : \A j \in keep : i <= j,
                      CHOOSE i \in keep : \A j \in keep : j <= i)

\* String.prototype.startsWith
startsWith(s, p) == Len(p) <= Len(s) /\ SubSeq(s, 1, Len(p)) = p

\* /^[^\s@]+@[^\s@]+\.[^\s@]+$/.test(s)
emailRegexTest(s) ==
    \E a \in 1..Len(s) : \E d \in 1..Len(s) :
        /\ s[a] = "@"
        /\ s[d] = "."
        /\ 1 < a
        /\ a + 1 < d
        /\ d < Len(s)
        /\ \A i \in 1..Len(s) : i # a => s[i] \notin (WhiteSpace \cup {"@"})

(***************************************************************************)
(* JSON values and header values                                           *)
(***************************************************************************)
JStr(s)  == [t |-> "str", v |-> s]
JNum(n)  == [t |-> "num", v |-> n]
JObj(f)  == [t |-> "obj", v |-> f]
JArr(q)  == [t |-> "arr", v |-> q]
JBool(b) == [t |-> "bool", v |-> b]
JNull    == [t |-> "null", v |-> 0]
Undefined == [t |-> "undefined", v |-> 0]

\* JavaScript truthiness of a value (the `!x` and `x && ...` tests)
truthy(x) ==
    CASE x.t = "str" -> x.v # << >>
      [] x.t = "num" -> x.v # 0
      [] x.t = "bool" -> x.v
      [] x.t \in {"obj", "arr"} -> TRUE
      [] OTHER -> FALSE

\* property read obj[k] on a value
Get(x, k) ==
    IF x.t = "obj" /\ k \in DOMAIN x.v THEN x.v[k] ELSE Undefined

DangerousKeys == {"__proto__", "constructor", "prototype"}

\* the own enumerable keys of an array are its indices "0", "1", ...: the
\* key of the element at position i (from 1)
RECURSIVE DecimalKey(_)
DecimalKey(n) ==
    IF n < 10 THEN <<"0","1","2","3","4","5","6","7","8","9">>[n + 1]
    ELSE DecimalKey(n \div 10) \o DecimalKey(n % 10)
IndexKeys(q) == [i \in 1..Len(q) |-> DecimalKey(i - 1)]

\* the object spread { ...body } of an object or an array
Spread(body) ==
    IF body.t = "arr"
    THEN [k \in {IndexKeys(body.v)[i] : i \in 1..Len(body.v)} |->
            body.v[CHOOSE i \in 1..Len(body.v) : IndexKeys(body.v)[i] = k]]
    ELSE body.v

\* validateRequest (middleware): top-level deletes only
validateRequest(body) ==
    IF body.t \notin {"obj", "arr"}
    THEN [isValid |-> FALSE, error |-> "Invalid request format", data |-> Undefined]
    ELSE LET sanitized == Spread(body)
         IN [isValid |-> TRUE, error |-> "",
             data |-> JObj([k \in (DOMAIN sanitized) \ DangerousKeys |-> sanitized[k]])]

\* rateLimit (middleware): a stub that always admits
rateLimit == [allowed |-> TRUE]

(***************************************************************************)
(* validateOrigin (middleware)                                             *)
(***************************************************************************)
Http == <<"h","t","t","p",":","/","/">>
LocalhostPrefix == Http \o <<"l","o","c","a","l","h","o","s","t",":">>
LoopbackPrefix == Http \o <<"1","2","7",".","0",".","0",".","1",":">>
Localhost3000 == LocalhostPrefix \o <<"3","0","0","0">>

\* const allowedOrigins = [process.env.NEXT_PUBLIC_APP_URL, 'http://localhost:3000']
allowedOrigins(e) == <<e.NEXT_PUBLIC_APP_URL, JStr(Localhost3000)>>

\* the operand of startsWith: allowed || ''
OrEmpty(x) == IF truthy(x) THEN x.v ELSE << >>

\* the production branch of validateOrigin
validateOriginProduction(origin, referer, e) ==
    LET allowed == allowedOrigins(e)
    IN IF truthy(origin) /\ \E i \in 1..Len(allowed) : allowed[i] = origin
       THEN TRUE
       ELSE IF truthy(referer)
               /\ \E i \in 1..Len(allowed) : startsWith(referer.v, OrEmpty(allowed[i]))
       THEN TRUE
       ELSE ~truthy(origin)

\* the development branch of validateOrigin
validateOriginDevelopment(origin, referer) ==
    IF truthy(origin)
       /\ (startsWith(origin.v, LocalhostPrefix) \/ startsWith(origin.v, LoopbackPrefix))
    THEN TRUE
    ELSE IF truthy(referer)
            /\ (startsWith(referer.v, LocalhostPrefix) \/ startsWith(referer.v, LoopbackPrefix))
    THEN TRUE
    ELSE ~truthy(origin)

\* validateOrigin(request), the headers read with headers.get (null when absent)
validateOrigin(origin, referer, e) ==
    IF e.NODE_ENV # "production"
    THEN validateOriginDevelopment(origin, referer)
    ELSE validateOriginProduction(origin, referer, e)

(***************************************************************************)
(* MockAuthStore                                                           *)
(***************************************************************************)
NoUser == [id |-> 0, name |-> << >>, email |-> << >>, password |-> Undefined]

\* users.find(user => user.email === email) || null
findUserByEmail(us, email) ==
    IF \E i \in 1..Len(us) : us[i].email = email
    THEN us[CHOOSE i \in 1..Len(us) :
                /\ us[i].email = email
                /\ \A j \in 1..Len(us) : us[j].email = email => i <= j]
    ELSE NoUser

\* the === of two values: strings, numbers and booleans by value, null and
\* undefined each equal to itself, objects and arrays by identity (two
\* separately parsed bodies never hold the same object)
StrictEquals(a, b) ==
    /\ a.t = b.t
    /\ CASE a.t \in {"str", "num", "bool"} -> a.v = b.v
         [] a.t \in {"null", "undefined"} -> TRUE
         [] OTHER -> FALSE

\* the AuthLog record logAuthEvent builds
AuthLog(action, userId, email, success) ==
    [action |-> action, userId |-> userId, email |-> email, success |-> success]

\* a log that puts the newest entry first
logAuthEventNewestFirst(logs, action, userId, email, success) ==
    <<AuthLog(action, userId, email, success)>> \o logs

\* logAuthEvent: authLogs.push(log)
logAuthEvent(logs, action, userId, email, success) ==
    Append(logs, AuthLog(action, userId, email, success))

\* the User record createUser builds
NewUser(id, name, email, password) ==
    [id |-> id, name |-> name, email |-> email, password |-> password]

\* a store that accepts any password for an account that exists
passwordMatchesAny(user, password) == user.id # 0

\* authenticateUser line 74: user && user.password === password
passwordMatches(user, password) ==
    user.id # 0 /\ StrictEquals(user.password, password)

(***************************************************************************)
(* Bounds and inputs of the gateway                                        *)
(***************************************************************************)
\* requests sent during one run, all of which may be in flight together
MaxRequests == 2

Slots == 1..MaxRequests

TestEmail == <<"t","e","s","t","@","e","x","a","m","p","l","e",".","c","o","m">>
TestEmailMixed == <<"T","e","s","t","@","E","x","a","m","p","l","e",".","c","o","m">>
NewEmail == <<"a","@","b",".","c">>
NewEmailUpper == <<"A","@","B",".","c">>
BadEmail == <<"a","b","c">>
TestPass == <<"t","e","s","t","p","a","s","s","1","2","3">>
WrongPass == <<"w","r","o","n","g","p","a","s","s">>
ShortPass == <<"s","h","o","r","t">>
TestName == <<"T","e","s","t"," ","U","s","e","r">>
PaddedName == <<" ","A","l"," ">>
EvilOrigin == <<"h","t","t","p","s",":","/","/","e","v","i","l",".","c","o">>
AppUrl == <<"h","t","t","p","s",":","/","/","a","p","p",".","c","o">>

\* a request body that is not JSON: request.json() throws on it
Malformed == [t |-> "malformed", v |-> 0]

RegisterBody(name, email, password) ==
    JObj([k \in {"name", "email", "password"} |->
            CASE k = "name" -> name [] k = "email" -> email [] OTHER -> password])

LoginBody(email, password) ==
    JObj([k \in {"email", "password"} |->
            IF k = "email" THEN email ELSE password])

\* an e-mail that cannot be converted to a string: {"toString": "x"}
UnprintableEmail == JObj([k \in {"toString"} |-> JStr(<<"x">>)])

\* the bodies sent to POST /api/auth/register
RegisterBodies ==
    {RegisterBody(JStr(PaddedName), JStr(TestEmailMixed), JStr(TestPass)),
     RegisterBody(JStr(PaddedName), JStr(NewEmail), JStr(TestPass)),
     RegisterBody(JStr(TestName), JStr(NewEmailUpper), JStr(WrongPass)),
     RegisterBody(JStr(TestName), JStr(NewEmail), JStr(ShortPass)),
     RegisterBody(JStr(TestName), JStr(BadEmail), JStr(TestPass)),
     RegisterBody(JStr(TestName), JArr(<<JStr(NewEmail)>>), JStr(TestPass)),
     LoginBody(JStr(NewEmail), JStr(TestPass)),
     Malformed}

\* the bodies sent to POST /api/auth/login
LoginBodies ==
    {LoginBody(JStr(TestEmailMixed), JStr(TestPass)),
     LoginBody(JStr(TestEmail), JStr(WrongPass)),
     LoginBody(JStr(NewEmail), JStr(TestPass)),
     LoginBody(UnprintableEmail, JStr(TestPass)),
     LoginBody(JArr(<<JStr(TestEmail)>>), JStr(TestPass)),
     LoginBody(JStr(TestEmail), JStr(<< >>)),
     JNull}

\* Origin and Referer headers of a request: <<origin, referer>>
TrustedHeaders == <<JStr(Localhost3000), JNull>>
ForeignHeaders == <<JStr(EvilOrigin), JStr(EvilOrigin \o <<"/">>)>>

\* the requests sent to the gateway: every body from a trusted origin, and
\* one request of each kind from a foreign origin
Requests ==
    {[kind |-> "register", hdr |-> TrustedHeaders, body |-> b] : b \in RegisterBodies}
    \cup {[kind |-> "login", hdr |-> TrustedHeaders, body |-> b] : b \in LoginBodies}
    \cup {[kind |-> "register", hdr |-> ForeignHeaders,
           body |-> RegisterBody(JStr(PaddedName), JStr(NewEmail), JStr(TestPass))],
          [kind |-> "login", hdr |-> ForeignHeaders,
           body |-> LoginBody(JStr(TestEmailMixed), JStr(TestPass))]}

\* the environments the gateway is run in
GatewayEnvs ==
    {[NODE_ENV |-> "development", NEXT_PUBLIC_APP_URL |-> Undefined],
     [NODE_ENV |-> "production", NEXT_PUBLIC_APP_URL |-> JStr(AppUrl)]}

(***************************************************************************)
(* Responses                                                               *)
(***************************************************************************)
NoResponse == [status |-> 0, error |-> "", sessionId |-> 0,
               user |-> [name |-> << >>, email |-> << >>], headers |-> {}]

\* the headers NextResponse.json sets
JsonHeaders == {"content-type"}

\* NextResponse.json({ error }, { status })
ErrorResponse(status, error) ==
    [status |-> status, error |-> error, sessionId |-> 0,
     user |-> [name |-> << >>, email |-> << >>], headers |-> JsonHeaders]

\* a register route that answers a created account with its 503
RegisterSuccessUnavailable(newUser) ==
    [status |-> 503, error |-> "Registration service temporarily unavailable", sessionId |-> 0,
     user |-> [name |-> << >>, email |-> << >>], headers |-> JsonHeaders]
\* NextResponse.json({ success: true, message, sessionId }, { status: 201 })
RegisterSuccess(newUser) ==
    [status |-> 201, error |-> "", sessionId |-> newUser.id,
     user |-> [name |-> << >>, email |-> << >>], headers |-> JsonHeaders]

\* NextResponse.json({ success: true, message, sessionId, user }, { status: 200 })
LoginSuccess(user) ==
    [status |-> 200, error |-> "", sessionId |-> user.id,
     user |-> [name |-> user.name, email |-> user.email], headers |-> JsonHeaders]

\* the logout route's NextResponse.json({ success: true, message }, { status: 200 })
\* a logout route that answers with its error response
LogoutFailure ==
    [status |-> 500, error |-> "Internal server error", sessionId |-> 0,
     user |-> [name |-> << >>, email |-> << >>], headers |-> JsonHeaders]
LogoutSuccess ==
    [status |-> 200, error |-> "", sessionId |-> 0,
     user |-> [name |-> << >>, email |-> << >>], headers |-> JsonHeaders]

\* addSecurityHeaders(response) of the security guide
addSecurityHeaders(response, e) ==
    [response EXCEPT !.headers =
        @ \cup {"x-frame-options", "x-content-type-options", "x-xss-protection",
                "referrer-policy", "content-security-policy"}
          \cup (IF e.NODE_ENV = "production" THEN {"strict-transport-security"} ELSE {})]

\* the login route's answer to what authenticateUser returned
LoginResponse(user) ==
    IF user.id = 0
    THEN ErrorResponse(401, "Invalid email or password")
    ELSE LoginSuccess(user)

\* the register route's answer to what findUserByEmail returned, when it
\* answers at once
ConflictResponse == ErrorResponse(409, "User with this email already exists")

(***************************************************************************)
(* Coercions the routes apply to body fields                               *)
(***************************************************************************)
Digits == <<"0","1","2","3","4","5","6","7","8","9">>
ObjectString == <<"[","o","b","j","e","c","t"," ","O","b","j","e","c","t","]">>

\* the completion of an operation that throws a TypeError
TypeError == [t |-> "throw", v |-> "TypeError"]

\* Number::toString of an integer
RECURSIVE digitsOf(_)
digitsOf(n) ==
    IF n < 10 THEN <<Digits[n + 1]>>
    ELSE digitsOf(n \div 10) \o <<Digits[(n % 10) + 1]>>
NumberToString(n) == IF n < 0 THEN <<"-">> \o digitsOf(0 - n) ELSE digitsOf(n)

\* String(x), as RegExp.prototype.test applies it to its argument: a string
\* value, or TypeError.  An object parsed from JSON whose own "toString"
\* is not callable cannot be converted; the elements of an array are joined
\* with ",", null elements giving "".
RECURSIVE ToStringJS(_)
RECURSIVE join(_)
ToStringJS(x) ==
    CASE x.t = "str" -> x
      [] x.t = "num" -> JStr(NumberToString(x.v))
      [] x.t = "bool" -> JStr(IF x.v THEN <<"t","r","u","e">> ELSE <<"f","a","l","s","e">>)
      [] x.t = "null" -> JStr(<<"n","u","l","l">>)
      [] x.t = "undefined" -> JStr(<<"u","n","d","e","f","i","n","e","d">>)
      [] x.t = "obj" -> IF "toString" \in DOMAIN x.v THEN TypeError ELSE JStr(ObjectString)
      [] x.t = "arr" -> join(x.v)
      [] OTHER -> TypeError

\* Array.prototype.join(",") of the elements q
join(q) ==
    IF q = << >> THEN JStr(<< >>)
    ELSE LET first == IF q[1].t \in {"null", "undefined"} THEN JStr(<< >>)
                      ELSE ToStringJS(q[1])
             rest == join(Tail(q))
         IN IF first.t = "throw" \/ rest.t = "throw" THEN TypeError
            ELSE IF Len(q) = 1 THEN first
            ELSE JStr(first.v \o <<",">> \o rest.v)

\* ToPrimitive(x): a primitive is itself, an object or array its string
ToPrimitive(x) == IF x.t \in {"obj", "arr"} THEN ToStringJS(x) ELSE x

DecimalDigits == {Digits[i] : i \in 1..Len(Digits)}
HexDigits == DecimalDigits \cup {"a","b","c","d","e","f","A","B","C","D","E","F"}

\* the digits q without their leading zeros
RECURSIVE stripZeros(_)
stripZeros(q) == IF q # << >> /\ q[1] = "0" THEN stripZeros(Tail(q)) ELSE q

\* the value of the digit c
digitValue(c) == (CHOOSE i \in 1..Len(Digits) : Digits[i] = c) - 1

\* the value of the digits q, fewer than ten of them
RECURSIVE digitsValue(_)
digitsValue(q) ==
    IF q = << >> THEN 0
    ELSE 10 * digitsValue(SubSeq(q, 1, Len(q) - 1)) + digitValue(q[Len(q)])

\* the position of the first element of q that is in S, 0 when there is none
firstIn(q, S) ==
    IF \E i \in 1..Len(q) : q[i] \in S
    THEN CHOOSE i \in 1..Len(q) : q[i] \in S /\ \A j \in 1..(i - 1) : q[j] \notin S
    ELSE 0

allIn(q, S) == \A i \in 1..Len(q) : q[i] \in S

\* the digits of 8 - 2^-51, the least real number that rounds to the double 8
RoundsToEight ==
    <<"7","9","9","9","9","9","9","9","9","9","9","9","9","9","9","9",
      "5","5","5","9","1","0","7","9","0","1","4","9","9","3","7","3",
      "8","3","8","3","0","5","4","7","3","3","2","7","6","3","6","7",
      "1","8","7","5">>

\* 0.a1a2... < 0.b1b2... for two digit sequences
digitsLess(a, b) ==
    LET n == IF Len(a) < Len(b) THEN Len(b) ELSE Len(a)
        at(q, i) == IF i <= Len(q) THEN digitValue(q[i]) ELSE 0
    IN \E i \in 1..n : at(a, i) < at(b, i) /\ \A j \in 1..(i - 1) : at(a, j) = at(b, j)

\* StrUnsignedDecimalLiteral other than Infinity: the parts of u, ok FALSE
\* when u does not match the grammar
decimalParts(u) ==
    LET e == firstIn(u, {"e", "E"})
        mant == IF e = 0 THEN u ELSE SubSeq(u, 1, e - 1)
        expo == IF e = 0 THEN << >> ELSE SubSeq(u, e + 1, Len(u))
        signed == expo # << >> /\ expo[1] \in {"+", "-"}
        edigits == IF signed THEN Tail(expo) ELSE expo
        dot == firstIn(mant, {"."})
        ip == IF dot = 0 THEN mant ELSE SubSeq(mant, 1, dot - 1)
        fp == IF dot = 0 THEN << >> ELSE SubSeq(mant, dot + 1, Len(mant))
    IN [ok |-> /\ allIn(ip, DecimalDigits) /\ allIn(fp, DecimalDigits)
               /\ ip \o fp # << >>
               /\ (e # 0 => edigits # << >> /\ allIn(edigits, DecimalDigits)),
        ip |-> ip, fp |-> fp,
        eneg |-> signed /\ expo[1] = "-",
        edigits |-> stripZeros(edigits)]

\* the double of the decimal literal u is below 8: with the value written
\* 0.d1d2... * 10^p, d1 not 0, p decides unless it is 1
decimalBelow8(u) ==
    LET d == decimalParts(u)
        sig == stripZeros(d.ip \o d.fp)
        zeros == Len(d.ip \o d.fp) - Len(sig)
        huge == Len(d.edigits) > 9
        ev == IF huge THEN 0
              ELSE IF d.eneg THEN 0 - digitsValue(d.edigits) ELSE digitsValue(d.edigits)
        p == Len(d.ip) - zeros + ev
    IN IF sig = << >> THEN TRUE
       ELSE IF huge THEN d.eneg
       ELSE IF p <= 0 THEN TRUE
       ELSE IF p >= 2 THEN FALSE
       ELSE digitsLess(sig, RoundsToEight)

Infinity == <<"I","n","f","i","n","i","t","y">>

\* ToNumber(s) < 8 for a string s (StringToNumber; NaN < 8 is false)
stringBelow8(s) ==
    LET t == trim(s)
        prefix == IF Len(t) >= 2 THEN <<t[1], t[2]>> ELSE << >>
        body == IF Len(t) >= 2 THEN SubSeq(t, 3, Len(t)) ELSE << >>
        neg == t # << >> /\ t[1] = "-"
        u == IF t # << >> /\ t[1] \in {"+", "-"} THEN Tail(t) ELSE t
    IN IF t = << >> THEN TRUE
       ELSE IF prefix \in {<<"0","x">>, <<"0","X">>}
       THEN /\ body # << >> /\ allIn(body, HexDigits)
            /\ \/ stripZeros(body) = << >>
               \/ Len(stripZeros(body)) = 1 /\ stripZeros(body)[1] \in {"1","2","3","4","5","6","7"}
       ELSE IF prefix \in {<<"0","o">>, <<"0","O">>}
       THEN /\ body # << >> /\ allIn(body, {"0","1","2","3","4","5","6","7"})
            /\ Len(stripZeros(body)) <= 1
       ELSE IF prefix \in {<<"0","b">>, <<"0","B">>}
       THEN /\ body # << >> /\ allIn(body, {"0","1"})
            /\ Len(stripZeros(body)) <= 3
       ELSE IF u = Infinity THEN neg
       ELSE IF ~decimalParts(u).ok THEN FALSE
       ELSE IF neg THEN TRUE
       ELSE decimalBelow8(u)

\* x < 8: ToPrimitive, then ToNumber; a boolean or TypeError
belowEight(x) ==
    LET p == ToPrimitive(x)
    IN CASE p.t = "throw" -> TypeError
         [] p.t = "num" -> JBool(p.v < 8)
         [] p.t = "str" -> JBool(stringBelow8(p.v))
         [] p.t \in {"bool", "null"} -> JBool(TRUE)
         [] OTHER -> JBool(FALSE)

\* password.length: the code units of a string, the elements of an array,
\* the own "length" of an object, undefined on a number or a boolean, a
\* TypeError on null and undefined
lengthOf(password) ==
    CASE password.t \in {"str", "arr"} -> JNum(Len(password.v))
      [] password.t = "obj" -> Get(password, "length")
      [] password.t \in {"num", "bool"} -> Undefined
      [] OTHER -> TypeError

\* password.length < 8: a boolean or TypeError
lengthBelow8(password) ==
    IF lengthOf(password).t = "throw" THEN TypeError
    ELSE belowEight(lengthOf(password))

\* x.toLowerCase / x.trim exist only on strings: a TypeError otherwise
isString(x) == x.t = "str"

\* email.toLowerCase().trim()
normalizeEmail(email) == trim(toLowerCase(email.v))

\* email.substring(0, 3)
substring3(s) == SubSeq(s, 1, IF Len(s) < 3 THEN Len(s) ELSE 3)

(***************************************************************************)
(* The routes, one action per synchronous block between two awaits         *)
(***************************************************************************)
\* a request slot: the handler's locals, its position (pc), the stages it ran
\* (trace) and the registrations that had been answered 201 when it arrived
\* (after)
IdleRequest ==
    [kind |-> "none", pc |-> "idle", origin |-> JNull, referer |-> JNull,
     body |-> Undefined, data |-> Undefined, email |-> << >>,
     found |-> NoUser, user |-> NoUser, resp |-> NoResponse, trace |-> << >>,
     after |-> {}]

\* one console line
ConsoleLine(event, a, b) == [event |-> event, a |-> a, b |-> b]

\* logSecurityEvent(event, details): console.log(`[SECURITY] ${event}:`, details)
logSecurityEvent(out, event, a, b) == Append(out, ConsoleLine(event, a, b))

\* a route that logs the bad origin and forgets to return
originRejectedNoReturn(r) ==
    [r EXCEPT !.pc = "json", !.trace = <<"validateOrigin", "logSecurityEvent">>]

\* lines 9-18 of both routes: the request that failed the origin check
originRejected(r) ==
    [r EXCEPT !.pc = "done",
              !.resp = ErrorResponse(403, "Invalid origin"),
              !.trace = <<"validateOrigin", "logSecurityEvent", "respond">>]

\* lines 20-26 of both routes: the request the rate limit refused
rateLimited(r) ==
    [r EXCEPT !.pc = "done",
              !.resp = ErrorResponse(429, "Too many requests"),
              !.trace = <<"validateOrigin", "rateLimit", "logSecurityEvent", "respond">>]

\* lines 9-26 of both routes: origin check, then rate limit, up to the
\* await of request.json()
Receive(i, kind, hdr, body) ==
    /\ reqs[i].pc = "idle"
    /\ IF i = 1 THEN TRUE ELSE reqs[i - 1].pc # "idle"
    /\ LET r == [IdleRequest EXCEPT !.kind = kind, !.origin = hdr[1],
                                    !.referer = hdr[2], !.body = body,
                                    !.after = {j \in DOMAIN reqs : reqs[j].pc = "done" /\ reqs[j].resp.status = 201}]
       IN IF ~validateOrigin(hdr[1], hdr[2], env)
          THEN /\ console' = logSecurityEvent(console, "INVALID_ORIGIN", hdr[1], hdr[2])
               /\ reqs' = [reqs EXCEPT ![i] = originRejected(r)]
          ELSE IF ~rateLimit.allowed
          THEN /\ console' = logSecurityEvent(console, "RATE_LIMIT_EXCEEDED", Undefined, Undefined)
               /\ reqs' = [reqs EXCEPT ![i] = rateLimited(r)]
          ELSE /\ console' = console
               /\ reqs' = [reqs EXCEPT ![i] =
                    [r EXCEPT !.pc = "json", !.trace = <<"validateOrigin", "rateLimit">>]]
    /\ UNCHANGED <<env, pending, users, authLogs, nextId, nonGatewayVars>>

\* POST /api/auth/logout: answered at once, whatever the request holds
Logout(i, hdr) ==
    /\ reqs[i].pc = "idle"
    /\ IF i = 1 THEN TRUE ELSE reqs[i - 1].pc # "idle"
    /\ reqs' = [reqs EXCEPT ![i] =
            [IdleRequest EXCEPT !.kind = "logout", !.origin = hdr[1], !.referer = hdr[2],
                                !.after = {j \in DOMAIN reqs : reqs[j].pc = "done" /\ reqs[j].resp.status = 201},
                                !.pc = "done", !.resp = LogoutSuccess,
                                !.trace = <<"respond">>]]
    /\ UNCHANGED <<env, pending, users, authLogs, console, nextId, nonGatewayVars>>

\* the request answered with `resp` after running `stages`
answered(r, resp, stages) ==
    [r EXCEPT !.pc = "done", !.resp = resp, !.trace = r.trace \o stages \o <<"respond">>]

\* the outer catch of both routes
InternalError == ErrorResponse(500, "Internal server error")

\* register route lines 29-64: what the body checks answer, NoResponse when
\* they all pass; a check that throws is answered by the outer catch
registerBodyChecks(body) ==
    LET validation == validateRequest(body)
        name == Get(validation.data, "name")
        email == Get(validation.data, "email")
        password == Get(validation.data, "password")
    IN IF ~validation.isValid
       THEN ErrorResponse(400, validation.error)
       ELSE IF ~truthy(name) \/ ~truthy(email) \/ ~truthy(password)
       THEN ErrorResponse(400, "Missing required fields: name, email, password")
       ELSE IF lengthBelow8(password).t = "throw"
       THEN InternalError
       ELSE IF lengthBelow8(password).v
       THEN ErrorResponse(400, "Password must be at least 8 characters long")
       ELSE IF ToStringJS(email).t = "throw"
       THEN InternalError
       ELSE IF ~emailRegexTest(ToStringJS(email).v)
       THEN ErrorResponse(400, "Invalid email format")
       ELSE NoResponse

\* login route lines 29-57
loginBodyChecks(body) ==
    LET validation == validateRequest(body)
        email == Get(validation.data, "email")
        password == Get(validation.data, "password")
    IN IF ~validation.isValid
       THEN ErrorResponse(400, validation.error)
       ELSE IF ~truthy(email) \/ ~truthy(password)
       THEN ErrorResponse(400, "Email and password are required")
       ELSE IF ToStringJS(email).t = "throw"
       THEN InternalError
       ELSE IF ~emailRegexTest(ToStringJS(email).v)
       THEN ErrorResponse(400, "Invalid email format")
       ELSE NoResponse

\* lines 29-64 (register) and 29-57 (login): request.json() has resolved or
\* thrown; the body checks run up to the await of import('../mock-store')
ParseBody(i) ==
    /\ reqs[i].pc = "json"
    /\ LET r == reqs[i]
           checks == IF r.kind = "register" THEN registerBodyChecks(r.body)
                     ELSE loginBodyChecks(r.body)
       IN IF r.body = Malformed
          THEN /\ reqs' = [reqs EXCEPT ![i] = answered(r, InternalError, <<"json">>)]
               /\ console' = Append(console, ConsoleLine("API error", Undefined, Undefined))
          ELSE IF checks # NoResponse
          THEN /\ reqs' = [reqs EXCEPT ![i] =
                              answered(r, checks, <<"json", "validateRequest">>)]
               /\ console' = IF checks = InternalError
                             THEN Append(console, ConsoleLine("API error", Undefined, Undefined))
                             ELSE console
          ELSE /\ reqs' = [reqs EXCEPT ![i] =
                    [r EXCEPT !.pc = "import",
                              !.data = validateRequest(r.body).data,
                              !.trace = r.trace \o <<"json", "validateRequest">>]]
               /\ console' = console
    /\ UNCHANGED <<env, pending, users, authLogs, nextId, nonGatewayVars>>

\* the inner catch (mockError) of the register route
RegisterUnavailable == ErrorResponse(503, "Registration service temporarily unavailable")

\* the inner catch (mockError) of the login route
LoginUnavailable == ErrorResponse(503, "Authentication service temporarily unavailable")

\* MockAuthStore.createUser: the store after the push and the registration log
createUser(us, logs, id, name, email, password) ==
    LET user == NewUser(id, name, email, password)
    IN [users |-> Append(us, user),
        authLogs |-> logAuthEvent(logs, "user_registration", user.id, user.email, TRUE),
        user |-> user]

\* register route line 71: the mock store is imported and findUserByEmail is
\* called on the normalized e-mail; the route then awaits its result
RegisterLookup(i) ==
    /\ reqs[i].pc = "import"
    /\ reqs[i].kind = "register"
    /\ LET r == reqs[i]
           email == Get(r.data, "email")
       IN IF ~isString(email)
          THEN /\ reqs' = [reqs EXCEPT ![i] = answered(r, RegisterUnavailable, << >>)]
               /\ console' = Append(console, ConsoleLine("Mock store error", Undefined, Undefined))
          ELSE /\ reqs' = [reqs EXCEPT ![i] =
                    [r EXCEPT !.pc = "found",
                              !.email = normalizeEmail(email),
                              !.found = findUserByEmail(users, normalizeEmail(email)),
                              !.trace = r.trace \o <<"findUserByEmail">>]]
               /\ console' = console
    /\ UNCHANGED <<env, pending, users, authLogs, nextId, nonGatewayVars>>

\* the ids `user_${Date.now()}_${Math.random().toString(36).substring(7)}`
\* can give a new account: one no account holds, or, when the clock and the
\* random suffix repeat, the id of an account the store already holds
newUserIds(us, fresh) == {fresh} \cup {us[k].id : k \in 1..Len(us)}

\* register route lines 73-85: the lookup has resolved; answer 409 or call
\* createUser, whose body runs to its end before the route awaits it
RegisterCreate(i) ==
    /\ reqs[i].pc = "found"
    /\ reqs[i].kind = "register"
    /\ \E id \in newUserIds(users, nextId) :
       LET r == reqs[i]
           name == Get(r.data, "name")
           created == createUser(users, authLogs, id, trim(name.v),
                                 normalizeEmail(Get(r.data, "email")),
                                 Get(r.data, "password"))
       IN IF r.found.id # 0
          THEN /\ reqs' = [reqs EXCEPT ![i] = answered(r, ConflictResponse, << >>)]
               /\ UNCHANGED <<users, authLogs, nextId, console>>
          ELSE IF ~isString(name)
          THEN /\ reqs' = [reqs EXCEPT ![i] = answered(r, RegisterUnavailable, << >>)]
               /\ console' = Append(console, ConsoleLine("Mock store error", Undefined, Undefined))
               /\ UNCHANGED <<users, authLogs, nextId>>
          ELSE /\ users' = created.users
               /\ authLogs' = created.authLogs
               /\ nextId' = nextId + 1
               /\ reqs' = [reqs EXCEPT ![i] =
                    [r EXCEPT !.pc = "created", !.user = created.user,
                              !.trace = r.trace \o <<"createUser">>]]
               /\ console' = console
    /\ UNCHANGED <<env, pending, nonGatewayVars>>

\* register route lines 87-95: createUser has resolved
RegisterRespond(i) ==
    /\ reqs[i].pc = "created"
    /\ LET r == reqs[i]
       IN /\ reqs' = [reqs EXCEPT ![i] = answered(r, RegisterSuccess(r.user), << >>)]
          /\ console' = Append(console,
                ConsoleLine("User registered successfully", JStr(r.user.email), JNum(r.user.id)))
    /\ UNCHANGED <<env, pending, users, authLogs, nextId, nonGatewayVars>>

\* login route line 64 and authenticateUser line 72: findUserByEmail is
\* called on the normalized e-mail and authenticateUser awaits it
LoginLookup(i) ==
    /\ reqs[i].pc = "import"
    /\ reqs[i].kind = "login"
    /\ LET r == reqs[i]
           email == Get(r.data, "email")
       IN IF ~isString(email)
          THEN /\ reqs' = [reqs EXCEPT ![i] = answered(r, LoginUnavailable, << >>)]
               /\ console' = Append(console, ConsoleLine("Mock store error", Undefined, Undefined))
          ELSE /\ reqs' = [reqs EXCEPT ![i] =
                    [r EXCEPT !.pc = "found",
                              !.email = normalizeEmail(email),
                              !.found = findUserByEmail(users, normalizeEmail(email)),
                              !.trace = r.trace \o <<"authenticateUser", "findUserByEmail">>]]
               /\ console' = console
    /\ UNCHANGED <<env, pending, users, authLogs, nextId, nonGatewayVars>>

\* authenticateUser lines 74-94: what it returns and what it logs
authenticateUser(logs, user, email, password) ==
    IF passwordMatches(user, password)
    THEN [user |-> user,
          authLogs |-> logAuthEvent(logs, "user_login", user.id, user.email, TRUE)]
    ELSE [user |-> NoUser,
          authLogs |-> logAuthEvent(logs, "user_login_failed", 0, email, FALSE)]

\* the rest of authenticateUser, run when its lookup has resolved
LoginCheck(i) ==
    /\ reqs[i].pc = "found"
    /\ reqs[i].kind = "login"
    /\ LET r == reqs[i]
           auth == authenticateUser(authLogs, r.found, r.email, Get(r.data, "password"))
       IN /\ authLogs' = auth.authLogs
          /\ reqs' = [reqs EXCEPT ![i] = [r EXCEPT !.pc = "authed", !.user = auth.user]]
    /\ UNCHANGED <<env, pending, users, console, nextId, nonGatewayVars>>

\* login route lines 69-88: authenticateUser has resolved
LoginRespond(i) ==
    /\ reqs[i].pc = "authed"
    /\ LET r == reqs[i]
       IN /\ reqs' = [reqs EXCEPT ![i] = answered(r, LoginResponse(r.user), << >>)]
          /\ console' =
                IF r.user.id = 0
                THEN Append(console, ConsoleLine("Failed login attempt for email",
                        JStr(substring3(Get(r.data, "email").v) \o <<"*","*","*">>), Undefined))
                ELSE Append(console, ConsoleLine("User logged in successfully",
                        JStr(r.user.email), JNum(r.user.id)))
    /\ UNCHANGED <<env, pending, users, authLogs, nextId, nonGatewayVars>>

(***************************************************************************)
(* The gateway                                                             *)
(***************************************************************************)
\* mock-store lines 132-139: the store is pre-populated when it is loaded
Prepopulated == createUser(<< >>, << >>, 1, TestName, TestEmail, JStr(TestPass))

NotRun == [t |-> "notrun", v |-> 0]

\* the store as loaded, no request received
StoreLoaded ==
    /\ users = Prepopulated.users
    /\ authLogs = Prepopulated.authLogs
    /\ console = << >>
    /\ nextId = 2
    /\ pending = << >>

\* no pure function under check
FnIdle == fnIn = NotRun /\ fnOut = NotRun

\* the identifiers (client addresses) the limiter is called with
Identifiers == {"ip1", "ip2"}

\* private static requests = new Map(), the clock at its origin
LimiterFresh ==
    /\ requests = << >>
    /\ now = 0
    /\ ticks = 0
    /\ calls = [identifier \in Identifiers |-> << >>]
    /\ securityLog = << >>

\* calls made to the Convex functions during one run
MaxConvexCalls == 2

IdleCall ==
    [op |-> "none", pc |-> "idle", name |-> Undefined, email |-> Undefined,
     password |-> Undefined, existing |-> 0, user |-> [id |-> 0, name |-> << >>, email |-> << >>],
     started |-> 0, wrote |-> << >>, logFailed |-> FALSE, resp |-> NoResponse]

\* the Convex deployment with empty tables, no call made
ConvexFresh ==
    /\ db = [users |-> << >>, profiles |-> << >>, authLogs |-> << >>, nextId |-> 1]
    /\ cvx = [i \in 1..MaxConvexCalls |-> IdleCall]
    /\ cvxDone = << >>

Init ==
    /\ env \in GatewayEnvs
    /\ StoreLoaded
    /\ reqs = [i \in Slots |-> IdleRequest]
    /\ FnIdle
    /\ LimiterFresh
    /\ ConvexFresh

Next ==
    \/ \E i \in DOMAIN reqs : \E q \in Requests : Receive(i, q.kind, q.hdr, q.body)
    \/ \E i \in DOMAIN reqs : ParseBody(i)
    \/ \E i \in DOMAIN reqs : RegisterLookup(i)
    \/ \E i \in DOMAIN reqs : RegisterCreate(i)
    \/ \E i \in DOMAIN reqs : RegisterRespond(i)
    \/ \E i \in DOMAIN reqs : LoginLookup(i)
    \/ \E i \in DOMAIN reqs : LoginCheck(i)
    \/ \E i \in DOMAIN reqs : LoginRespond(i)
    \/ \E i \in DOMAIN reqs : \E hdr \in {TrustedHeaders, ForeignHeaders} : Logout(i, hdr)

Spec == Init /\ [][Next]_vars

(***************************************************************************)
(* Properties of the gateway                                               *)
(***************************************************************************)
Done(i) == reqs[i].pc = "done"

\* the request reached the account store
ReachedStore(i) ==
    \E k \in 1..Len(reqs[i].trace) : reqs[i].trace[k] = "findUserByEmail"

\* C1: the account store never holds two accounts whose e-mails are equal
\* after lowercasing and trimming, whatever the interleaving of the
\* register requests
C1_EmailUnique ==
    \A i \in 1..Len(users) : \A j \in 1..Len(users) :
        i # j => trim(toLowerCase(users[i].email)) # trim(toLowerCase(users[j].email))

\* the login of slot i found no account for its e-mail
NoAccount(i) == reqs[i].found.id = 0

\* the login of slot i found an account and supplied another password
WrongPassword(i) ==
    /\ reqs[i].found.id # 0
    /\ ~StrictEquals(reqs[i].found.password, Get(reqs[i].data, "password"))

GenericLoginFailure == ErrorResponse(401, "Invalid email or password")

\* C2: a login for an e-mail without account and a login with a wrong
\* password for an existing account are both answered 401 with the same
\* message
C2_LoginFailureUniform ==
    \A i \in DOMAIN reqs :
        (reqs[i].kind = "login" /\ Done(i) /\ ReachedStore(i)
            /\ (NoAccount(i) \/ WrongPassword(i)))
        => reqs[i].resp = GenericLoginFailure

C2_Witness ==
    \E i \in DOMAIN reqs : \E j \in DOMAIN reqs :
        /\ reqs[i].kind = "login" /\ Done(i) /\ ReachedStore(i) /\ NoAccount(i)
        /\ reqs[j].kind = "login" /\ Done(j) /\ ReachedStore(j) /\ WrongPassword(j)
        /\ reqs[i].resp = reqs[j].resp

\* the headers of slot i fail the origin check
BadOrigin(i) ==
    /\ reqs[i].pc # "idle"
    /\ reqs[i].kind \in {"register", "login"}
    /\ ~validateOrigin(reqs[i].origin, reqs[i].referer, env)

\* C9: a register or login request that fails the origin check is answered
\* 403 'Invalid origin' after an INVALID_ORIGIN line was logged, and runs no
\* later stage: no rate limit, no body parsing, no access to the store
C9_BadOriginStopsAtOnce ==
    \A i \in DOMAIN reqs :
        BadOrigin(i) =>
            /\ Done(i)
            /\ reqs[i].resp = ErrorResponse(403, "Invalid origin")
            /\ reqs[i].trace = <<"validateOrigin", "logSecurityEvent", "respond">>
            /\ reqs[i].data = Undefined
            /\ \E k \in 1..Len(console) :
                  console[k] = ConsoleLine("INVALID_ORIGIN", reqs[i].origin, reqs[i].referer)

C9_Witness ==
    \E i \in DOMAIN reqs : \E j \in DOMAIN reqs :
        /\ BadOrigin(i) /\ reqs[i].kind = "register"
        /\ BadOrigin(j) /\ reqs[j].kind = "login"

(***************************************************************************)
(* RateLimiter and SecurityLogger                                          *)
(***************************************************************************)
\* the positions of "@" in s
AtSigns(s) == {k \in 1..Len(s) : s[k] = "@"}
Least(S) == CHOOSE k \in S : \A j \in S : k <= j

\* email.split('@')[0]
localPartOf(s) ==
    IF AtSigns(s) = {} THEN s ELSE SubSeq(s, 1, Least(AtSigns(s)) - 1)

\* email.split('@')[1], as the template literal prints it
domainOf(s) ==
    IF AtSigns(s) = {} THEN <<"u","n","d","e","f","i","n","e","d">>
    ELSE LET first == Least(AtSigns(s))
             later == {k \in AtSigns(s) : k > first}
         IN SubSeq(s, first + 1, IF later = {} THEN Len(s) ELSE Least(later) - 1)

\* SecurityLogger.maskEmail
maskEmail(email) ==
    LET localPart == localPartOf(email)
        domain == domainOf(email)
    IN IF Len(localPart) <= 2
       THEN localPart \o <<"*","*","*","@">> \o domain
       ELSE SubSeq(localPart, 1, 2) \o <<"*","*","*","@">> \o domain

\* isAllowed's default windowMs
windowMs == 900000
\* isAllowed's default maxRequests
maxRequests == 10
\* the threshold logRateLimit reports
logThreshold == 10

\* isAllowed calls made during one run
MaxCalls == 12
\* advances of the clock during one run
MaxTicks == 2

\* by how much the clock advances between two calls
TimeSteps == {1, windowMs - 1}

\* requests.filter(timestamp => timestamp > bound)
timestampsAfter(list, bound) == SelectSeq(list, LAMBDA t : t > bound)

\* a limiter that loses the stored history of the identifier
historyOfLost(map, identifier) == << >>

\* this.requests.get(identifier) || []
historyOf(map, identifier) ==
    IF identifier \in DOMAIN map THEN map[identifier] ELSE << >>

\* this.requests.set(identifier, list)
mapSet(map, identifier, list) ==
    [k \in (DOMAIN map) \cup {identifier} |-> IF k = identifier THEN list ELSE map[k]]

\* SecurityLogger.logSuspiciousActivity(activity): the log after
\* storeSecurityLog; details holds requestCount and threshold
logSuspiciousActivity(log, at, activity) ==
    Append(log, [timestamp |-> at, event |-> "suspicious_activity",
                 type |-> activity.type, severity |-> activity.severity,
                 ip |-> activity.ip, requestCount |-> activity.requestCount,
                 threshold |-> activity.threshold])

\* SecurityLogger.logRateLimit(identifier, requestCount)
logRateLimit(log, at, identifier, requestCount) ==
    logSuspiciousActivity(log, at,
        [type |-> "rate_limit_exceeded", severity |-> "medium", ip |-> identifier,
         requestCount |-> requestCount, threshold |-> logThreshold])

\* SecurityLogger.logAuthenticationAttempt(event): the log after the call
\* and the error it threw.  In production it calls
\* this.sendToMonitoringService, which the class does not define, and
\* throws before anything is stored.
logAuthenticationAttempt(log, at, event, e) ==
    IF e.NODE_ENV = "production"
    THEN [securityLog |-> log, error |-> "TypeError"]
    ELSE [securityLog |->
            Append(log, [timestamp |-> at, event |-> "authentication_attempt",
                         success |-> event.success,
                         email |-> IF truthy(event.email)
                                   THEN JStr(maskEmail(event.email.v)) ELSE Undefined,
                         userId |-> event.userId, ip |-> event.ip]),
          error |-> ""]

\* a limiter that compares with > where the code compares with >=
limitReachedOffByOne(list, max) == Len(list) > max

\* isAllowed line 242: requests.length >= maxRequests
limitReached(list, max) == Len(list) >= max

\* a limiter that records the time of a denied call as well
isAllowedRecordingDenied(map, log, at, identifier, window, max) ==
    LET recent == timestampsAfter(historyOf(map, identifier), at - window)
    IN [allowed |-> ~limitReached(recent, max),
        requests |-> mapSet(map, identifier, Append(recent, at)),
        securityLog |-> IF limitReached(recent, max)
                        THEN logRateLimit(log, at, identifier, Len(recent)) ELSE log]
\* RateLimiter.isAllowed(identifier, window, max) called at time `at`: the
\* answer, the map and the security log after the call
isAllowed(map, log, at, identifier, window, max) ==
    LET windowStart == at - window
        recent == timestampsAfter(historyOf(map, identifier), windowStart)
    IN IF limitReached(recent, max)
       THEN [allowed |-> FALSE, requests |-> map,
             securityLog |-> logRateLimit(log, at, identifier, Len(recent))]
       ELSE [allowed |-> TRUE,
             requests |-> mapSet(map, identifier, Append(recent, at)),
             securityLog |-> log]

RECURSIVE SumOfLengths(_, _)
SumOfLengths(f, S) ==
    IF S = {} THEN 0
    ELSE LET x == CHOOSE y \in S : TRUE
         IN Len(f[x]) + SumOfLengths(f, S \ {x})

\* the number of isAllowed calls made so far
CallsMade == SumOfLengths(calls, Identifiers)

\* one call of RateLimiter.isAllowed(identifier, window, max); the method
\* has no await, so a call runs to its end before another starts
IsAllowed(identifier, window, max) ==
    /\ CallsMade < MaxCalls
    /\ LET res == isAllowed(requests, securityLog, now, identifier, window, max)
       IN /\ requests' = res.requests
          /\ securityLog' = res.securityLog
          /\ calls' = [calls EXCEPT ![identifier] =
                            Append(@, [at |-> now, allowed |-> res.allowed,
                                       window |-> window, max |-> max])]
    /\ UNCHANGED <<now, ticks, gatewayVars, fnVars, convexVars>>

\* the calls the second client makes
MaxOtherCalls == 1

\* a call of the second client, with the default window and maximum
OtherCall == Len(calls["ip2"]) < MaxOtherCalls /\ IsAllowed("ip2", windowMs, maxRequests)

\* direct calls of the SecurityLogger made while the log holds fewer entries
MaxLoggerCalls == 1

\* the events and activities the logger is called with
AuthEvents ==
    {[success |-> FALSE, email |-> JStr(NewEmail), userId |-> 0, ip |-> "ip1"],
     [success |-> TRUE, email |-> Undefined, userId |-> 1, ip |-> "ip2"]}
SuspiciousActivities ==
    {[type |-> "invalid_origin", severity |-> "high", ip |-> "ip1",
      requestCount |-> 0, threshold |-> 0]}

\* a call and its outcome; error is "" when it did not throw
LoggerCall(fn, args) == [t |-> fn, v |-> args]
LoggerResult(error) == [t |-> "result", v |-> [value |-> << >>, error |-> error]]

\* SecurityLogger.logAuthenticationAttempt(event) called by any importer;
\* outside production the entry is printed before it is stored
LogAuthenticationAttempt(event) ==
    /\ Len(securityLog) < MaxLoggerCalls
    /\ LET res == logAuthenticationAttempt(securityLog, now, event, env)
       IN /\ securityLog' = res.securityLog
          /\ console' = IF res.error = ""
                        THEN Append(console,
                                    ConsoleLine("[SECURITY]",
                                                res.securityLog[Len(res.securityLog)].email,
                                                Undefined))
                        ELSE console
          /\ fnIn' = LoggerCall("SecurityLogger.logAuthenticationAttempt", event)
          /\ fnOut' = LoggerResult(res.error)
    /\ UNCHANGED <<requests, now, ticks, calls, env, users, authLogs, nextId, reqs, pending, convexVars>>

\* SecurityLogger.logSuspiciousActivity(activity) called by any importer; a
\* high severity prints an alert before the entry is stored
LogSuspiciousActivity(activity) ==
    /\ Len(securityLog) < MaxLoggerCalls
    /\ securityLog' = logSuspiciousActivity(securityLog, now, activity)
    /\ console' = IF activity.severity = "high"
                  THEN Append(console, ConsoleLine("[SECURITY_ALERT]", Undefined, Undefined))
                  ELSE console
    /\ fnIn' = LoggerCall("SecurityLogger.logSuspiciousActivity", activity)
    /\ fnOut' = LoggerResult("")
    /\ UNCHANGED <<requests, now, ticks, calls, env, users, authLogs, nextId, reqs, pending, convexVars>>

\* SecurityLogger.logRateLimit(identifier, requestCount) called by any importer
LogRateLimit(identifier, requestCount) ==
    /\ Len(securityLog) < MaxLoggerCalls
    /\ securityLog' = logRateLimit(securityLog, now, identifier, requestCount)
    /\ fnIn' = LoggerCall("SecurityLogger.logRateLimit",
                          [identifier |-> identifier, requestCount |-> requestCount])
    /\ fnOut' = LoggerResult("")
    /\ UNCHANGED <<requests, now, ticks, calls, gatewayVars, convexVars>>

\* Date.now() advances
Tick(d) ==
    /\ ticks < MaxTicks
    /\ now' = now + d
    /\ ticks' = ticks + 1
    /\ UNCHANGED <<requests, calls, securityLog, gatewayVars, fnVars, convexVars>>

\* the gateway at rest, in development
GatewayIdle ==
    /\ env = [NODE_ENV |-> "development", NEXT_PUBLIC_APP_URL |-> Undefined]
    /\ StoreLoaded
    /\ reqs = [i \in Slots |-> IdleRequest]

InitLimiter == GatewayIdle /\ FnIdle /\ LimiterFresh /\ ConvexFresh

\* the limiter and the logger loaded in development or in production
InitLogger ==
    /\ env \in GatewayEnvs
    /\ StoreLoaded
    /\ reqs = [i \in Slots |-> IdleRequest]
    /\ FnIdle /\ LimiterFresh /\ ConvexFresh

\* callers that leave the window and the maximum at their defaults
NextLimiter ==
    \/ \E identifier \in Identifiers : IsAllowed(identifier, windowMs, maxRequests)
    \/ \E d \in TimeSteps : Tick(d)

\* the limiter together with the direct calls of the logger
NextLogger ==
    \/ IsAllowed("ip1", windowMs, maxRequests)
    \/ OtherCall
    \/ \E d \in TimeSteps : Tick(d)
    \/ \E event \in AuthEvents : LogAuthenticationAttempt(event)
    \/ \E activity \in SuspiciousActivities : LogSuspiciousActivity(activity)
    \/ LogRateLimit("ip2", 0)

SpecLimiter == InitLimiter /\ [][NextLimiter]_vars
SpecLogger == InitLogger /\ [][NextLogger]_vars

(***************************************************************************)
(* Properties of the rate limiter                                          *)
(***************************************************************************)
\* the admitted calls of `identifier` with a timestamp in (t - windowMs, t]
AdmittedIn(identifier, t) ==
    {k \in 1..Len(calls[identifier]) :
        /\ calls[identifier][k].allowed
        /\ calls[identifier][k].at > t - windowMs
        /\ calls[identifier][k].at <= t}

\* every admitted call made before call k of `identifier` has left the
\* window by the time of call k
PastTheWindow(identifier, k) ==
    \A j \in 1..(k - 1) :
        calls[identifier][j].allowed
            => calls[identifier][j].at + windowMs <= calls[identifier][k].at

\* C5: with maxRequests = 10 and windowMs = 900000 the first ten calls of an
\* identifier are admitted, the 11th call is denied when it falls inside the
\* window of those ten, and a call made once time has advanced past the
\* window is admitted again
C5_TenthAdmittedEleventhDenied ==
    \A identifier \in Identifiers :
        LET c == calls[identifier]
        IN /\ \A k \in 1..Len(c) : k <= 10 => c[k].allowed
           /\ (Len(c) >= 11 /\ c[1].at > c[11].at - 900000) => ~c[11].allowed
           /\ \A k \in 1..Len(c) : PastTheWindow(identifier, k) => c[k].allowed

C5_Witness ==
    \E identifier \in Identifiers :
        LET c == calls[identifier]
        IN /\ Len(c) >= 12
           /\ \A k \in 1..10 : c[k].allowed /\ c[k].at > c[11].at - 900000
           /\ ~c[11].allowed
           /\ c[11].at > c[1].at
           /\ c[12].allowed
           /\ PastTheWindow(identifier, 12)

\* C6: for every identifier and every instant t the number of admitted
\* calls with a timestamp in (t - windowMs, t] never exceeds maxRequests
C6_WindowNeverExceeded ==
    \A identifier \in Identifiers :
        \A t \in {now} \cup {calls[identifier][k].at : k \in 1..Len(calls[identifier])} :
            Cardinality(AdmittedIn(identifier, t)) <= maxRequests

C6_Witness ==
    \E a \in Identifiers : \E b \in Identifiers \ {a} :
        /\ Cardinality(AdmittedIn(a, now)) = maxRequests
        /\ \E k \in 1..Len(calls[a]) : ~calls[a][k].allowed /\ calls[a][k].at = now
        /\ \E k \in 1..Len(calls[b]) : calls[b][k].allowed /\ calls[b][k].at = now
        /\ now > 0

(***************************************************************************)
(* validateOrigin and validateRequest as pure functions of their inputs    *)
(***************************************************************************)
\* header values: absent, empty, local, allow-listed, foreign
HeaderValues ==
    {JNull, JStr(<< >>), JStr(Localhost3000), JStr(Localhost3000 \o <<"/","x">>),
     JStr(LoopbackPrefix \o <<"8","0">>), JStr(AppUrl), JStr(AppUrl \o <<"/","x">>),
     JStr(EvilOrigin), JStr(EvilOrigin \o <<"/","x">>)}

\* NODE_ENV and NEXT_PUBLIC_APP_URL, the latter set or unset
OriginEnvs ==
    {[NODE_ENV |-> m, NEXT_PUBLIC_APP_URL |-> u] :
        m \in {"development", "production"}, u \in {Undefined, JStr(AppUrl)}}

Headers(origin, referer) == [t |-> "headers", v |-> <<origin, referer>>]

\* the mock store at rest, any environment
StoreIdle == StoreLoaded /\ reqs = [i \in Slots |-> IdleRequest]

InitOrigin ==
    /\ env \in OriginEnvs
    /\ StoreIdle
    /\ LimiterFresh
    /\ ConvexFresh
    /\ fnIn \in {Headers(o, r) : o \in HeaderValues, r \in HeaderValues}
    /\ fnOut = NotRun

\* validateOrigin(request) is called
ApplyValidateOrigin ==
    /\ fnIn.t = "headers"
    /\ fnOut = NotRun
    /\ fnOut' = JBool(validateOrigin(fnIn.v[1], fnIn.v[2], env))
    /\ UNCHANGED <<fnIn, gatewayVars, limiterVars, convexVars>>

NextOrigin == ApplyValidateOrigin

SpecOrigin == InitOrigin /\ [][NextOrigin]_vars

\* the entries of the allow-list that are configured
AllowList ==
    {Localhost3000} \cup
    (IF env.NEXT_PUBLIC_APP_URL.t = "str" THEN {env.NEXT_PUBLIC_APP_URL.v} ELSE {})

\* C8: in production mode a request that carries an Origin header is
\* accepted only if the Origin equals an allow-list entry or the Referer
\* starts with one, whether the application URL is set or unset
C8_ProductionAllowListOnly ==
    (/\ fnOut.t = "bool"
     /\ fnOut.v
     /\ env.NODE_ENV = "production"
     /\ truthy(fnIn.v[1]))
    => \/ fnIn.v[1].v \in AllowList
       \/ /\ fnIn.v[2].t = "str"
          /\ \E a \in AllowList : startsWith(fnIn.v[2].v, a)

\* the payloads: JSON values nested up to MaxDepth levels
MaxDepth == 2

PayloadKeys == DangerousKeys \cup {"email"}
Leaves == {JStr(<<" ", "x">>), JNum(1), JNull}

RECURSIVE Nested(_)
Nested(d) ==
    IF d = 0 THEN {JStr(<<" ", "x">>)}
    ELSE LET inner == Nested(d - 1)
         IN inner
            \cup {JObj(<< >>)}
            \cup {JObj([k \in {key} |-> x]) : key \in PayloadKeys, x \in inner}
            \cup {JArr(<<x>>) : x \in inner}

Payloads ==
    Leaves
    \cup {JArr(<<x>>) : x \in Nested(MaxDepth - 1)}
    \cup {JObj(f) : f \in UNION {[K -> Nested(MaxDepth - 1)] :
                        K \in {S \in SUBSET PayloadKeys : Cardinality(S) <= 2}}}

InitValidate ==
    /\ env = [NODE_ENV |-> "development", NEXT_PUBLIC_APP_URL |-> Undefined]
    /\ StoreIdle
    /\ LimiterFresh
    /\ ConvexFresh
    /\ fnIn \in {[t |-> "payload", v |-> x] : x \in Payloads}
    /\ fnOut = NotRun

\* validateRequest(rawBody) is called
ApplyValidateRequest ==
    /\ fnIn.t = "payload"
    /\ fnOut = NotRun
    /\ fnOut' = [t |-> "validation", v |-> validateRequest(fnIn.v)]
    /\ UNCHANGED <<fnIn, gatewayVars, limiterVars, convexVars>>

NextValidate == ApplyValidateRequest

SpecValidate == InitValidate /\ [][NextValidate]_vars

\* no key of DangerousKeys at any depth of x
RECURSIVE DeepClean(_)
DeepClean(x) ==
    CASE x.t = "obj" ->
            /\ (DOMAIN x.v) \cap DangerousKeys = {}
            /\ \A k \in DOMAIN x.v : DeepClean(x.v[k])
      [] x.t = "arr" -> \A i \in 1..Len(x.v) : DeepClean(x.v[i])
      [] OTHER -> TRUE

\* C10: validateRequest returns a result for every payload, and for every
\* object payload the keys __proto__, constructor and prototype are absent
\* from the returned data at every nesting depth
C10_NoDangerousKeyAtAnyDepth ==
    fnOut.t = "validation" =>
        /\ fnOut.v.isValid = (fnIn.v.t \in {"obj", "arr"})
        /\ fnOut.v.isValid => DeepClean(fnOut.v.data)

\* ------------------------------------------------------------------
\* Twelve rapid login attempts against the login route
\* ------------------------------------------------------------------

\* the number of attempts made by the rate-limit test
BurstAttempts == 12
\* the handlers that may run in any order: while more than these are in
\* flight a handler takes its next step only behind the attempts that arrived
\* before it
MaxInFlight == 2

\* the body every attempt of the test sends
BurstBody == LoginBody(JStr(TestEmail), JStr(WrongPass))

InitBurst ==
    /\ env = [NODE_ENV |-> "development", NEXT_PUBLIC_APP_URL |-> Undefined]
    /\ StoreLoaded
    /\ reqs = [i \in 1..BurstAttempts |-> IdleRequest]
    /\ FnIdle
    /\ LimiterFresh
    /\ ConvexFresh

\* attempt i reaches the login route; the test starts all its requests
\* before it awaits any, so nothing makes an attempt wait for an earlier one
BurstReceive(i) == Receive(i, "login", TrustedHeaders, BurstBody)

\* how far a handler of the login route has come
Stage(r) ==
    CASE r.pc = "idle" -> 0
      [] r.pc = "json" -> 1
      [] r.pc = "import" -> 2
      [] r.pc = "found" -> 3
      [] r.pc = "authed" -> 4
      [] OTHER -> 5

\* the attempts between their first step and their answer
InFlight == {j \in DOMAIN reqs : reqs[j].pc \notin {"idle", "done"}}

\* attempt i may resume from its await
Resumes(i) ==
    \/ Cardinality(InFlight) <= MaxInFlight
    \/ \A j \in 1..(i - 1) : Stage(reqs[j]) > Stage(reqs[i])

NextBurst ==
    \/ \E i \in DOMAIN reqs : BurstReceive(i)
    \/ \E i \in DOMAIN reqs : Resumes(i) /\ ParseBody(i)
    \/ \E i \in DOMAIN reqs : Resumes(i) /\ LoginLookup(i)
    \/ \E i \in DOMAIN reqs : Resumes(i) /\ LoginCheck(i)
    \/ \E i \in DOMAIN reqs : Resumes(i) /\ LoginRespond(i)

SpecBurst == InitBurst /\ [][NextBurst]_vars

\* the twelve attempts of the test have all been answered
BurstAnswered ==
    /\ Len(reqs) >= 12
    /\ \A i \in 1..12 : reqs[i].kind = "login" /\ reqs[i].pc = "done"

\* C7: when twelve login attempts are made in rapid succession at least one
\* of the twelve responses has status 429
C7_BurstIsLimited ==
    BurstAnswered => \E i \in 1..12 : reqs[i].resp.status = 429

\* ------------------------------------------------------------------
\* The Convex functions: mutations, internal functions and HTTP actions
\* ------------------------------------------------------------------

ConvexEmails == {TestEmail, TestEmailMixed}
ConvexPasswords == {TestPass, WrongPass}

\* the calls a client can make
ConvexInputs ==
    {[op |-> o, name |-> JStr(TestName), email |-> JStr(e), password |-> JStr(pw)] :
        o \in {"httpRegister", "httpLogin", "register", "login"},
        e \in ConvexEmails, pw \in ConvexPasswords}
    \cup {[op |-> o, name |-> JStr(TestName), email |-> JStr(TestEmail), password |-> Undefined] :
        o \in {"httpRegister", "httpLogin"}}

NoDoc == [id |-> 0, name |-> << >>, email |-> << >>]

\* .query("users") ... eq("email", email) ... .first()
firstByEmail(table, email) ==
    LET hits == SelectSeq(table, LAMBDA u : u.email = email)
    IN IF hits = << >> THEN NoDoc ELSE Head(hits)

\* ctx.db.insert: the table with the new document, and the next free id
insertUser(d, name, email) ==
    [d EXCEPT !.users = Append(@, [id |-> d.nextId, name |-> name, email |-> email]),
              !.nextId = @ + 1]
\* the optional fields of a profile the model keeps
ProfileFields == {"displayName", "bio"}
\* a new profile document: the supplied fields, created and updated at Date.now()
profileDocument(id, userId, args) ==
    [id |-> id, userId |-> userId,
     displayName |-> IF "displayName" \in DOMAIN args THEN JStr(args["displayName"]) ELSE Undefined,
     bio |-> IF "bio" \in DOMAIN args THEN JStr(args["bio"]) ELSE Undefined,
     createdAt |-> now, updatedAt |-> now]
insertProfile(d, userId, args) ==
    [d EXCEPT !.profiles = Append(@, profileDocument(d.nextId, userId, args)),
              !.nextId = @ + 1]
insertAuthLog(d, action, userId, email) ==
    [d EXCEPT !.authLogs = Append(@, [id |-> d.nextId, action |-> action, userId |-> userId,
                                       email |-> email, success |-> TRUE]),
              !.nextId = @ + 1]

\* internal.checkUserExists
checkUserExists(d, email) == IF firstByEmail(d.users, email).id # 0 THEN 1 ELSE 0

\* internal.createUser: user, profile and log entry in one transaction
internalCreateUser(d, name, email, password) ==
    LET userId == d.nextId
    IN insertAuthLog(insertProfile(insertUser(d, name, email), userId, [displayName |-> name]),
                     "user_registration", userId, email)

\* internal.authenticateUser: the password is not looked at
internalAuthenticateUser(d, email, password) == firstByEmail(d.users, email)

\* internal.logAuthEvent
internalLogAuthEvent(d, action, userId, email) == insertAuthLog(d, action, userId, email)

\* the answer of a call: an HTTP response, or the result or error of a mutation
ConvexAnswer(status, error, success, userId) ==
    [status |-> status, error |-> error, sessionId |-> 0, success |-> success, userId |-> userId]

\* the log entry the last insert of d wrote
lastLog(d) == d.authLogs[Len(d.authLogs)]

\* a client makes a call: an HTTP action runs up to its await of
\* request.json(), a mutation is handed to the transaction runner
ConvexCall(i, q) ==
    /\ cvx[i].pc = "idle"
    /\ IF i = 1 THEN TRUE ELSE cvx[i - 1].pc # "idle"
    /\ cvx' = [cvx EXCEPT ![i] =
            [IdleCall EXCEPT !.op = q.op, !.name = q.name, !.email = q.email,
                             !.password = q.password, !.started = Len(cvxDone),
                             !.pc = IF q.op \in {"httpRegister", "httpLogin"}
                                    THEN "json" ELSE "mutation"]]
    /\ UNCHANGED <<db, cvxDone, gatewayVars, fnVars, limiterVars>>

\* HTTP register lines 109-119 and HTTP login lines 167-177: request.json()
\* has resolved; 400 when a field is missing, else the action goes on to
\* its first runQuery
HttpReadBody(i) ==
    /\ cvx[i].pc = "json"
    /\ LET c == cvx[i]
           missing == \/ c.op = "httpRegister" /\ (~truthy(c.name) \/ ~truthy(c.email) \/ ~truthy(c.password))
                      \/ c.op = "httpLogin" /\ (~truthy(c.email) \/ ~truthy(c.password))
       IN IF missing
          THEN /\ cvx' = [cvx EXCEPT ![i].pc = "done", ![i].resp =
                    ConvexAnswer(400, IF c.op = "httpRegister" THEN "Missing required fields"
                                      ELSE "Email and password are required", FALSE, 0)]
               /\ cvxDone' = Append(cvxDone, i)
          ELSE /\ cvx' = [cvx EXCEPT ![i].pc = "query"]
               /\ cvxDone' = cvxDone
    /\ UNCHANGED <<db, gatewayVars, fnVars, limiterVars>>

\* HTTP register: runQuery(checkUserExists)
HttpRegisterCheck(i) ==
    /\ cvx[i].op = "httpRegister" /\ cvx[i].pc = "query"
    /\ cvx' = [cvx EXCEPT ![i].existing = checkUserExists(db, cvx[i].email.v), ![i].pc = "checked"]
    /\ UNCHANGED <<db, cvxDone, gatewayVars, fnVars, limiterVars>>

\* HTTP register: 409 when the query found a user, else runMutation(createUser)
HttpRegisterCreate(i) ==
    /\ cvx[i].op = "httpRegister" /\ cvx[i].pc = "checked"
    /\ IF cvx[i].existing > 0
       THEN /\ cvx' = [cvx EXCEPT ![i].pc = "done", ![i].resp =
                    ConvexAnswer(409, "User with this email already exists", FALSE, 0)]
            /\ cvxDone' = Append(cvxDone, i)
            /\ db' = db
       ELSE /\ db' = internalCreateUser(db, cvx[i].name.v, cvx[i].email.v, cvx[i].password.v)
            /\ cvx' = [cvx EXCEPT ![i].pc = "created",
                                  ![i].wrote = Append(@, lastLog(db')),
                                  ![i].user = [id |-> db.nextId, name |-> cvx[i].name.v,
                                               email |-> cvx[i].email.v]]
            /\ cvxDone' = cvxDone
    /\ UNCHANGED <<gatewayVars, fnVars, limiterVars>>

\* HTTP register: the 201 response
HttpRegisterRespond(i) ==
    /\ cvx[i].op = "httpRegister" /\ cvx[i].pc = "created"
    /\ cvx' = [cvx EXCEPT ![i].pc = "done", ![i].resp = ConvexAnswer(201, "", TRUE, cvx[i].user.id)]
    /\ cvxDone' = Append(cvxDone, i)
    /\ UNCHANGED <<db, gatewayVars, fnVars, limiterVars>>

\* HTTP login: runQuery(authenticateUser)
HttpLoginQuery(i) ==
    /\ cvx[i].op = "httpLogin" /\ cvx[i].pc = "query"
    /\ cvx' = [cvx EXCEPT ![i].user = internalAuthenticateUser(db, cvx[i].email.v, cvx[i].password.v),
                          ![i].pc = "authenticated"]
    /\ UNCHANGED <<db, cvxDone, gatewayVars, fnVars, limiterVars>>

\* HTTP login: 401 when the query returned null, else runMutation(logAuthEvent)
HttpLoginLog(i) ==
    /\ cvx[i].op = "httpLogin" /\ cvx[i].pc = "authenticated"
    /\ IF cvx[i].user.id = 0
       THEN /\ cvx' = [cvx EXCEPT ![i].pc = "done", ![i].resp =
                    ConvexAnswer(401, "Invalid email or password", FALSE, 0)]
            /\ cvxDone' = Append(cvxDone, i)
            /\ db' = db
       ELSE /\ db' = internalLogAuthEvent(db, "user_login", cvx[i].user.id, cvx[i].user.email)
            /\ cvx' = [cvx EXCEPT ![i].pc = "logged", ![i].wrote = Append(@, lastLog(db'))]
            /\ cvxDone' = cvxDone
    /\ UNCHANGED <<gatewayVars, fnVars, limiterVars>>

\* HTTP login: the 200 response
HttpLoginRespond(i) ==
    /\ cvx[i].op = "httpLogin" /\ cvx[i].pc = "logged"
    /\ cvx' = [cvx EXCEPT ![i].pc = "done", ![i].resp = ConvexAnswer(200, "", TRUE, cvx[i].user.id)]
    /\ cvxDone' = Append(cvxDone, i)
    /\ UNCHANGED <<db, gatewayVars, fnVars, limiterVars>>

\* the register mutation, one transaction
MutationRegister(i) ==
    /\ cvx[i].op = "register" /\ cvx[i].pc = "mutation"
    /\ LET existingUser == firstByEmail(db.users, cvx[i].email.v)
           userId == db.nextId
       IN IF existingUser.id # 0
          THEN /\ cvx' = [cvx EXCEPT ![i].pc = "done", ![i].resp =
                    ConvexAnswer(0, "User with this email already exists", FALSE, 0)]
               /\ db' = db
          ELSE /\ db' = insertAuthLog(insertProfile(insertUser(db, cvx[i].name.v, cvx[i].email.v),
                                                    userId, [displayName |-> cvx[i].name.v]),
                                      "user_registered", userId, cvx[i].email.v)
               /\ cvx' = [cvx EXCEPT ![i].pc = "done",
                                     ![i].wrote = Append(@, lastLog(db')),
                                     ![i].user = [id |-> userId, name |-> cvx[i].name.v,
                                                  email |-> cvx[i].email.v],
                                     ![i].resp = ConvexAnswer(0, "", TRUE, userId)]
    /\ cvxDone' = Append(cvxDone, i)
    /\ UNCHANGED <<gatewayVars, fnVars, limiterVars>>

\* the login mutation, one transaction
MutationLogin(i) ==
    /\ cvx[i].op = "login" /\ cvx[i].pc = "mutation"
    /\ LET user == firstByEmail(db.users, cvx[i].email.v)
       IN IF user.id = 0
          THEN /\ cvx' = [cvx EXCEPT ![i].pc = "done", ![i].resp =
                    ConvexAnswer(0, "Invalid email or password", FALSE, 0)]
               /\ db' = db
          ELSE /\ db' = insertAuthLog(db, "user_login", user.id, user.email)
               /\ cvx' = [cvx EXCEPT ![i].pc = "done", ![i].user = user,
                                     ![i].wrote = Append(@, lastLog(db')),
                                     ![i].resp = ConvexAnswer(0, "", TRUE, user.id)]
    /\ cvxDone' = Append(cvxDone, i)
    /\ UNCHANGED <<gatewayVars, fnVars, limiterVars>>

InitConvex == GatewayIdle /\ FnIdle /\ LimiterFresh /\ ConvexFresh

NextConvex ==
    \/ \E i \in DOMAIN cvx : \E q \in ConvexInputs : ConvexCall(i, q)
    \/ \E i \in DOMAIN cvx : HttpReadBody(i)
    \/ \E i \in DOMAIN cvx : HttpRegisterCheck(i)
    \/ \E i \in DOMAIN cvx : HttpRegisterCreate(i)
    \/ \E i \in DOMAIN cvx : HttpRegisterRespond(i)
    \/ \E i \in DOMAIN cvx : HttpLoginQuery(i)
    \/ \E i \in DOMAIN cvx : HttpLoginLog(i)
    \/ \E i \in DOMAIN cvx : HttpLoginRespond(i)
    \/ \E i \in DOMAIN cvx : MutationRegister(i)
    \/ \E i \in DOMAIN cvx : MutationLogin(i)

SpecConvex == InitConvex /\ [][NextConvex]_vars

\* ------------------------------------------------------------------
\* Properties of the Convex functions
\* ------------------------------------------------------------------

Answered(i) == cvx[i].pc = "done"
IsRegistration(i) == cvx[i].op \in {"httpRegister", "register"}
IsLogin(i) == cvx[i].op \in {"httpLogin", "login"}
\* the call carries every field of a registration
Complete(i) == truthy(cvx[i].name) /\ truthy(cvx[i].email) /\ truthy(cvx[i].password)
\* call j was made after call i had been answered
MadeAfter(j, i) ==
    \E k \in 1..Len(cvxDone) : cvxDone[k] = i /\ k <= cvx[j].started
\* the users stored under the normalised form of e-mail e
StoredAs(e) == SelectSeq(db.users, LAMBDA u : trim(toLowerCase(u.email)) = trim(toLowerCase(e)))

\* C3: a login is answered with success only if an account with the
\* normalised e-mail exists and the password supplied is the one that account
\* was registered with
C3_LoginNeedsRegisteredPassword ==
    \A j \in DOMAIN cvx :
        (IsLogin(j) /\ Answered(j) /\ cvx[j].resp.success) =>
            \E i \in DOMAIN cvx :
                /\ IsRegistration(i) /\ cvx[i].user.id # 0
                /\ cvx[i].user.id = cvx[j].resp.userId
                /\ normalizeEmail(cvx[i].email) = normalizeEmail(cvx[j].email)
                /\ cvx[i].password = cvx[j].password

\* C4: after a registration with e-mail e has succeeded, a registration with
\* any upper/lower-case variant of e is answered Conflict and creates no
\* account
C4_CaseVariantConflicts ==
    \A i, j \in DOMAIN cvx :
        (/\ IsRegistration(i) /\ IsRegistration(j)
         /\ Answered(i) /\ Answered(j) /\ Complete(j)
         /\ cvx[i].resp.success
         /\ MadeAfter(j, i)
         /\ toLowerCase(cvx[i].email.v) = toLowerCase(cvx[j].email.v))
        => /\ ~cvx[j].resp.success
           /\ cvx[j].resp.error = "User with this email already exists"
           /\ Len(StoredAs(cvx[i].email.v)) = 1

\* ------------------------------------------------------------------
\* The end-to-end scenario: registrations followed by logins
\* ------------------------------------------------------------------

\* requests sent during one run of the scenario
MaxScenarioRequests == 3

\* the registration of the end-to-end test
TestUserBody == RegisterBody(JStr(TestName), JStr(TestEmail), JStr(TestPass))

ScenarioRequests ==
    {[kind |-> "register", hdr |-> TrustedHeaders, body |-> b] :
        b \in {TestUserBody,
               RegisterBody(JStr(PaddedName), JStr(NewEmail), JStr(TestPass)),
               RegisterBody(JStr(TestName), JStr(NewEmailUpper), JStr(WrongPass))}}
    \cup {[kind |-> "login", hdr |-> TrustedHeaders, body |-> b] :
        b \in {LoginBody(JStr(NewEmailUpper), JStr(TestPass)),
               LoginBody(JStr(NewEmail), JStr(WrongPass)),
               LoginBody(JStr(TestEmailMixed), JStr(TestPass))}}

InitScenario ==
    /\ env = [NODE_ENV |-> "development", NEXT_PUBLIC_APP_URL |-> Undefined]
    /\ StoreLoaded
    /\ reqs = [i \in 1..MaxScenarioRequests |-> IdleRequest]
    /\ FnIdle
    /\ LimiterFresh
    /\ ConvexFresh

NextScenario ==
    \/ \E i \in DOMAIN reqs : \E q \in ScenarioRequests : Receive(i, q.kind, q.hdr, q.body)
    \/ \E i \in DOMAIN reqs : ParseBody(i)
    \/ \E i \in DOMAIN reqs : RegisterLookup(i)
    \/ \E i \in DOMAIN reqs : RegisterCreate(i)
    \/ \E i \in DOMAIN reqs : RegisterRespond(i)
    \/ \E i \in DOMAIN reqs : LoginLookup(i)
    \/ \E i \in DOMAIN reqs : LoginCheck(i)
    \/ \E i \in DOMAIN reqs : LoginRespond(i)

SpecScenario == InitScenario /\ [][NextScenario]_vars

\* slot i holds the first request the process receives
FirstRequest(i) == reqs[i].kind # "none" /\ i = 1

\* C11: on a freshly started process the registration of Test User,
\* test@example.com, testpass123 is answered 201 with a session identifier
C11_FreshRegisterCreated ==
    \A i \in DOMAIN reqs :
        (FirstRequest(i) /\ reqs[i].kind = "register" /\ reqs[i].body = TestUserBody /\ Done(i))
        => reqs[i].resp.status = 201 /\ reqs[i].resp.sessionId # 0

\* slot i holds a registration answered 201
Registered(i) == reqs[i].kind = "register" /\ Done(i) /\ reqs[i].resp.status = 201

\* slot j holds a login, made after the registration of slot i was answered,
\* with the e-mail of slot i in some letter case and the same password
LoginFor(j, i) ==
    /\ reqs[j].kind = "login" /\ Done(j)
    /\ i \in reqs[j].after
    /\ reqs[j].body.t = "obj" /\ reqs[i].body.t = "obj"
    /\ Get(reqs[j].body, "email").t = "str" /\ Get(reqs[i].body, "email").t = "str"
    /\ toLowerCase(Get(reqs[j].body, "email").v) = toLowerCase(Get(reqs[i].body, "email").v)
    /\ StrictEquals(Get(reqs[j].body, "password"), Get(reqs[i].body, "password"))

\* C12: after a successful registration a login with the same e-mail in any
\* letter case and the same password is answered 200 with the normalised
\* e-mail and the registered name, whatever requests ran in between
C12_LoginAfterRegister ==
    \A i, j \in DOMAIN reqs :
        (Registered(i) /\ LoginFor(j, i))
        => /\ reqs[j].resp.status = 200
           /\ reqs[j].resp.user.email = normalizeEmail(Get(reqs[i].body, "email"))
           /\ reqs[j].resp.user.name = trim(Get(reqs[i].body, "name").v)

\* ------------------------------------------------------------------
\* The account stores called directly: MockAuthStore and the Convex
\* internal functions, one call after another
\* ------------------------------------------------------------------

\* log entries written during one run, both stores together
MaxStoreLogs == 4
\* the page size of the Convex log query
pageSize == 50

StoreEmails == {TestEmail, NewEmail}
StorePasswords == {TestPass, WrongPass}

\* the number of log entries both stores hold
LogsWritten == Len(authLogs) + Len(db.authLogs)

\* a call and what the store held when it was made
StoreCall(fn, args, accounts, logs) ==
    [t |-> fn, v |-> [args |-> args, accounts |-> accounts, logs |-> logs]]
\* what a call returned; error is "" when it did not throw
StoreResult(value, error) == [t |-> "result", v |-> [value |-> value, error |-> error]]

\* the log entries the suspended authenticateUser calls will write
LogsDue == Len(pending)

\* MockAuthStore.createUser({name, email, password})
MockCreateUser(name, email, password) ==
    /\ LogsWritten + LogsDue < MaxStoreLogs
    /\ \E id \in newUserIds(users, nextId) :
       LET made == createUser(users, authLogs, id, name, email, JStr(password))
       IN /\ users' = made.users
          /\ authLogs' = made.authLogs
          /\ nextId' = nextId + 1
          /\ fnIn' = StoreCall("MockAuthStore.createUser",
                               [name |-> name, email |-> email, password |-> password, userId |-> 0, fields |-> << >>],
                               users, authLogs)
          /\ fnOut' = StoreResult(<<made.user.id>>, "")
    /\ UNCHANGED <<env, console, reqs, pending, limiterVars, convexVars>>

\* MockAuthStore.authenticateUser(email, password) up to its await:
\* findUserByEmail has searched the accounts the store holds now
MockAuthenticateUser(email, password) ==
    /\ LogsWritten + LogsDue < MaxStoreLogs
    /\ pending' = Append(pending, [email |-> email, password |-> password,
                                   found |-> findUserByEmail(users, email)])
    /\ UNCHANGED <<env, users, authLogs, console, nextId, reqs, fnVars, limiterVars, convexVars>>

\* authenticateUser lines 74-94, resumed from the await: the calls resume
\* in the order they were made
MockAuthenticateUserResume ==
    /\ pending # << >>
    /\ LET call == Head(pending)
           auth == authenticateUser(authLogs, call.found, call.email, JStr(call.password))
       IN /\ authLogs' = auth.authLogs
          /\ fnIn' = StoreCall("MockAuthStore.authenticateUser",
                               [name |-> << >>, email |-> call.email, password |-> call.password, userId |-> 0, fields |-> << >>],
                               users, authLogs)
          /\ fnOut' = StoreResult(<<auth.user.id>>, "")
    /\ pending' = Tail(pending)
    /\ UNCHANGED <<env, users, console, nextId, reqs, limiterVars, convexVars>>

\* MockAuthStore.logAuthEvent({action, userId, email, success}) called by
\* any importer of the store
MockLogAuthEvent(action, userId, email, success) ==
    /\ LogsWritten + LogsDue < MaxStoreLogs
    /\ authLogs' = logAuthEvent(authLogs, action, userId, email, success)
    /\ fnIn' = StoreCall("MockAuthStore.logAuthEvent",
                         [name |-> << >>, email |-> email, password |-> << >>, userId |-> userId,
                          fields |-> [action |-> action, success |-> success]],
                         users, authLogs)
    /\ fnOut' = StoreResult(<< >>, "")
    /\ UNCHANGED <<env, users, console, nextId, reqs, pending, limiterVars, convexVars>>

\* MockAuthStore.getAuthLogs(userId): userId 0 stands for no argument
getAuthLogs(logs, userId) ==
    IF userId # 0 THEN SelectSeq(logs, LAMBDA log : log.userId = userId) ELSE logs

MockGetAuthLogs(userId) ==
    /\ fnIn' = StoreCall("MockAuthStore.getAuthLogs",
                         [name |-> << >>, email |-> << >>, password |-> << >>, userId |-> userId, fields |-> << >>],
                         users, authLogs)
    /\ fnOut' = StoreResult(getAuthLogs(authLogs, userId), "")
    /\ UNCHANGED <<gatewayVars, limiterVars, convexVars>>

\* internal.createUser({name, email, password}) run as a mutation
ConvexCreateUser(name, email, password) ==
    /\ LogsWritten + LogsDue < MaxStoreLogs
    /\ db' = internalCreateUser(db, name, email, password)
    /\ fnIn' = StoreCall("internal.createUser",
                         [name |-> name, email |-> email, password |-> password, userId |-> 0, fields |-> << >>],
                         db.users, db.authLogs)
    /\ fnOut' = StoreResult(<<db.nextId>>, "")
    /\ UNCHANGED <<cvx, cvxDone, gatewayVars, limiterVars>>

\* internal.logAuthEvent({action: 'user_login', userId, email, success: true})
ConvexLogAuthEvent(userId, email) ==
    /\ LogsWritten + LogsDue < MaxStoreLogs
    /\ db' = internalLogAuthEvent(db, "user_login", userId, email)
    /\ fnIn' = StoreCall("internal.logAuthEvent",
                         [name |-> << >>, email |-> email, password |-> << >>, userId |-> userId, fields |-> << >>],
                         db.users, db.authLogs)
    /\ fnOut' = StoreResult(<< >>, "")
    /\ UNCHANGED <<cvx, cvxDone, gatewayVars, limiterVars>>

RECURSIVE Reverse(_)
Reverse(q) == IF q = << >> THEN << >> ELSE Append(Reverse(Tail(q)), Head(q))

\* .take(n)
take(q, n) == SubSeq(q, 1, IF Len(q) < n THEN Len(q) ELSE n)

\* users.getMyAuthLogs for the signed-in user; userId 0 stands for no session
getMyAuthLogs(d, userId) ==
    IF userId = 0 THEN << >>
    ELSE take(Reverse(SelectSeq(d.authLogs, LAMBDA log : log.userId = userId)), pageSize)

ConvexGetMyAuthLogs(userId) ==
    /\ fnIn' = StoreCall("users.getMyAuthLogs",
                         [name |-> << >>, email |-> << >>, password |-> << >>, userId |-> userId, fields |-> << >>],
                         db.users, db.authLogs)
    /\ fnOut' = StoreResult(getMyAuthLogs(db, userId), "")
    /\ UNCHANGED <<gatewayVars, limiterVars, convexVars>>

\* ctx.db.get(userId)
getUser(d, userId) ==
    LET hits == SelectSeq(d.users, LAMBDA u : u.id = userId)
    IN IF hits = << >> THEN NoDoc ELSE Head(hits)

\* the profile documents with the first profile of userId patched
\* ctx.db.patch(profile._id, {...args, updatedAt: Date.now()})
patchProfile(profiles, userId, args) ==
    LET first == CHOOSE k \in 1..Len(profiles) :
                    /\ profiles[k].userId = userId
                    /\ \A j \in 1..(k - 1) : profiles[j].userId # userId
    IN [profiles EXCEPT ![first] =
            [f \in DOMAIN @ |-> IF f \in DOMAIN args THEN JStr(args[f])
                                ELSE IF f = "updatedAt" THEN now
                                ELSE @[f]]]

\* the profile documents without the first profile of userId
deleteProfile(profiles, userId) ==
    LET first == CHOOSE k \in 1..Len(profiles) :
                    /\ profiles[k].userId = userId
                    /\ \A j \in 1..(k - 1) : profiles[j].userId # userId
    IN SubSeq(profiles, 1, first - 1) \o SubSeq(profiles, first + 1, Len(profiles))

\* a lookup that never finds the profile of an account
hasProfileNever(profiles, userId) == FALSE
\* .query("profiles") ... eq("userId", userId) ... .first() found a document
hasProfile(profiles, userId) == \E k \in 1..Len(profiles) : profiles[k].userId = userId

\* the insert-or-patch both updateProfile mutations share
upsertProfile(d, userId, args) ==
    IF hasProfile(d.profiles, userId)
    THEN [d EXCEPT !.profiles = patchProfile(@, userId, args)]
    ELSE insertProfile(d, userId, args)

\* users.updateProfile(args) of the signed-in user; userId 0 stands for no session
updateProfile(d, userId, args) ==
    LET user == getUser(d, userId)
    IN IF userId = 0 THEN [db |-> d, error |-> "Not authenticated"]
       ELSE IF user.id = 0 THEN [db |-> d, error |-> "User not found"]
       ELSE [db |-> insertAuthLog(upsertProfile(d, userId, args),
                                  "profile_updated", userId, user.email),
             error |-> ""]

\* the demo users.updateProfile({userId, ...profileData}): no session is
\* asked for, the account is not read, the log entry carries no e-mail
demoUpdateProfile(d, userId, args) ==
    [db |-> insertAuthLog(upsertProfile(d, userId, args), "profile_updated", userId, << >>),
     error |-> ""]

\* the afterUserCreatedOrUpdated callback of the auth library, run inside the
\* mutation that stored the account; profile is args.profile
afterUserCreatedOrUpdated(d, userId, profile) ==
    LET name == Get(profile, "name")
        seeded == IF userId # 0 /\ truthy(profile) /\ ~hasProfile(d.profiles, userId)
                  THEN insertProfile(d, userId,
                                     IF name.t = "str" THEN [displayName |-> name.v] ELSE << >>)
                  ELSE d
        user == getUser(seeded, userId)
    IN IF user.id # 0
       THEN insertAuthLog(seeded, "user_created_or_updated", userId, user.email)
       ELSE seeded

\* a deletion that does not look at the confirmation phrase
deleteAccountUnconfirmed(d, userId, confirmation) ==
    LET user == getUser(d, userId)
    IN IF userId = 0 THEN [db |-> d, error |-> "Not authenticated"]
       ELSE IF user.id = 0 THEN [db |-> d, error |-> "User not found"]
       ELSE [db |-> insertAuthLog([d EXCEPT !.profiles = SelectSeq(@, LAMBDA p : p.userId # userId)],
                                  "account_deleted", userId, user.email),
             error |-> ""]
\* users.deleteAccount({confirmation}) of the signed-in user
deleteAccount(d, userId, confirmation) ==
    LET user == getUser(d, userId)
    IN IF userId = 0 THEN [db |-> d, error |-> "Not authenticated"]
       ELSE IF user.id = 0 THEN [db |-> d, error |-> "User not found"]
       ELSE IF confirmation # "DELETE" THEN [db |-> d, error |-> "Invalid confirmation"]
       ELSE LET cleared == IF hasProfile(d.profiles, userId)
                           THEN [d EXCEPT !.profiles = deleteProfile(@, userId)]
                           ELSE d
            IN [db |-> insertAuthLog(cleared, "account_deleted", userId, user.email), error |-> ""]

ConvexUpdateProfile(userId, args) ==
    /\ LogsWritten + LogsDue < MaxStoreLogs
    /\ LET res == updateProfile(db, userId, args)
       IN /\ db' = res.db
          /\ fnOut' = StoreResult(<< >>, res.error)
    /\ fnIn' = StoreCall("users.updateProfile",
                         [name |-> << >>, email |-> << >>, password |-> << >>, userId |-> userId, fields |-> args],
                         db.users, db.authLogs)
    /\ UNCHANGED <<cvx, cvxDone, gatewayVars, limiterVars>>

ConvexDemoUpdateProfile(userId, args) ==
    /\ LogsWritten + LogsDue < MaxStoreLogs
    /\ LET res == demoUpdateProfile(db, userId, args)
       IN /\ db' = res.db
          /\ fnOut' = StoreResult(<< >>, res.error)
    /\ fnIn' = StoreCall("demo.updateProfile",
                         [name |-> << >>, email |-> << >>, password |-> << >>, userId |-> userId, fields |-> args],
                         db.users, db.authLogs)
    /\ UNCHANGED <<cvx, cvxDone, gatewayVars, limiterVars>>

\* the auth library signs an existing account in again and runs the callback
ConvexAfterUserCreatedOrUpdated(userId, profile) ==
    /\ LogsWritten + LogsDue < MaxStoreLogs
    /\ getUser(db, userId).id # 0
    /\ db' = afterUserCreatedOrUpdated(db, userId, profile)
    /\ fnIn' = StoreCall("auth.afterUserCreatedOrUpdated",
                         [name |-> << >>, email |-> << >>, password |-> << >>, userId |-> userId, fields |-> << >>],
                         db.users, db.authLogs)
    /\ fnOut' = StoreResult(<< >>, "")
    /\ UNCHANGED <<cvx, cvxDone, gatewayVars, limiterVars>>

\* the authentication.logout mutation: nothing is read or written
ConvexLogout ==
    /\ fnIn' = StoreCall("authentication.logout",
                         [name |-> << >>, email |-> << >>, password |-> << >>, userId |-> 0, fields |-> << >>],
                         db.users, db.authLogs)
    /\ fnOut' = StoreResult(<<TRUE>>, "")
    /\ UNCHANGED <<gatewayVars, limiterVars, convexVars>>

ConvexDeleteAccount(userId, confirmation) ==
    /\ LogsWritten + LogsDue < MaxStoreLogs
    /\ LET res == deleteAccount(db, userId, confirmation)
       IN /\ db' = res.db
          /\ fnOut' = StoreResult(<< >>, res.error)
    /\ fnIn' = StoreCall("users.deleteAccount",
                         [name |-> << >>, email |-> << >>, password |-> << >>, userId |-> userId,
                          fields |-> [confirmation |-> confirmation]],
                         db.users, db.authLogs)
    /\ UNCHANGED <<cvx, cvxDone, gatewayVars, limiterVars>>

InitStore == GatewayIdle /\ FnIdle /\ LimiterFresh /\ ConvexFresh

\* the ids a caller can name: none, the first account of either store, the
\* second account of the mock store
StoreIds == {0, 1, 2}

NextStore ==
    \/ \E e \in StoreEmails : MockCreateUser(TestName, e, TestPass)
    \/ \E e \in StoreEmails, pw \in StorePasswords : MockAuthenticateUser(e, pw)
    \/ MockAuthenticateUserResume
    \/ MockLogAuthEvent("user_registration", 2, NewEmail, TRUE)
    \/ \E id \in StoreIds : MockGetAuthLogs(id)
    \/ \E e \in StoreEmails : ConvexCreateUser(TestName, e, TestPass)
    \/ \E id \in StoreIds : ConvexLogAuthEvent(id, TestEmail)
    \/ \E id \in StoreIds : ConvexGetMyAuthLogs(id)
    \/ \E id \in StoreIds : ConvexUpdateProfile(id, [displayName |-> PaddedName])
    \/ \E id \in StoreIds, c \in {"DELETE", "delete"} : ConvexDeleteAccount(id, c)

SpecStore == InitStore /\ [][NextStore]_vars

\* the last call was a create of either store
CreateCalled == fnIn.t \in {"MockAuthStore.createUser", "internal.createUser"}
\* the accounts of the store the last call went to
AccountsNow == IF fnIn.t = "internal.createUser" THEN db.users ELSE users

\* C13: create called with an e-mail that already belongs to an account
\* fails with a DuplicateEmail error and leaves the accounts unchanged
C13_CreateRejectsDuplicate ==
    (/\ CreateCalled
     /\ \E k \in 1..Len(fnIn.v.accounts) : fnIn.v.accounts[k].email = fnIn.v.args.email)
    => /\ fnOut.v.error = "DuplicateEmail"
       /\ AccountsNow = fnIn.v.accounts

\* q is an initial part of r
IsPrefix(q, r) == Len(q) <= Len(r) /\ SubSeq(r, 1, Len(q)) = q

\* C14: the security log is append-only: every step leaves the entries
\* recorded so far in place, unmodified and in insertion order, in the mock
\* store and in the Convex table alike
C14_LogAppendOnly ==
    [][IsPrefix(authLogs, authLogs') /\ IsPrefix(db.authLogs, db.authLogs')]_vars

C14_Witness ==
    /\ Len(authLogs) >= 2
    /\ Len(db.authLogs) >= 2
    /\ \E k \in 1..Len(db.authLogs) : db.authLogs[k].action = "account_deleted"

\* the login of slot j got as far as the account lookup
LookedUp(j) == IsLogin(j) /\ Answered(j) /\ cvx[j].resp.status # 400

\* C15: every login that reaches the account store has written exactly one
\* log entry by the time it is answered: an entry with success = true that
\* names the account when the login succeeds, an entry with success = false
\* when it fails
C15_LoginLoggedOnce ==
    \A j \in DOMAIN cvx :
        LookedUp(j) =>
            /\ Len(cvx[j].wrote) = 1
            /\ cvx[j].wrote[1].success = cvx[j].resp.success
            /\ cvx[j].resp.success => cvx[j].wrote[1].userId = cvx[j].resp.userId

\* ------------------------------------------------------------------
\* The Convex functions when a write to the authLogs table fails
\* ------------------------------------------------------------------

ConvexInternalError == ConvexAnswer(500, "Internal server error", FALSE, 0)

\* HTTP login: runMutation(logAuthEvent) rejects and the catch block answers
HttpLoginLogFails(i) ==
    /\ cvx[i].op = "httpLogin" /\ cvx[i].pc = "authenticated"
    /\ cvx[i].user.id # 0
    /\ cvx' = [cvx EXCEPT ![i].pc = "done", ![i].logFailed = TRUE,
                          ![i].resp = ConvexInternalError]
    /\ cvxDone' = Append(cvxDone, i)
    /\ UNCHANGED <<db, gatewayVars, fnVars, limiterVars>>

\* HTTP register: the log insert inside createUser throws, the mutation is
\* aborted with nothing written, and the catch block answers
HttpRegisterCreateFails(i) ==
    /\ cvx[i].op = "httpRegister" /\ cvx[i].pc = "checked"
    /\ cvx[i].existing = 0
    /\ cvx' = [cvx EXCEPT ![i].pc = "done", ![i].logFailed = TRUE,
                          ![i].resp = ConvexInternalError]
    /\ cvxDone' = Append(cvxDone, i)
    /\ UNCHANGED <<db, gatewayVars, fnVars, limiterVars>>

\* the register or login mutation: the log insert throws and the mutation is
\* aborted with nothing written
MutationLogFails(i) ==
    /\ cvx[i].op \in {"register", "login"} /\ cvx[i].pc = "mutation"
    /\ (cvx[i].op = "register") = (firstByEmail(db.users, cvx[i].email.v).id = 0)
    /\ cvx' = [cvx EXCEPT ![i].pc = "done", ![i].logFailed = TRUE,
                          ![i].resp = ConvexAnswer(0, "Server Error", FALSE, 0)]
    /\ cvxDone' = Append(cvxDone, i)
    /\ UNCHANGED <<db, gatewayVars, fnVars, limiterVars>>

NextFaulty ==
    \/ NextConvex
    \/ \E i \in DOMAIN cvx : HttpLoginLogFails(i)
    \/ \E i \in DOMAIN cvx : HttpRegisterCreateFails(i)
    \/ \E i \in DOMAIN cvx : MutationLogFails(i)

SpecFaulty == InitConvex /\ [][NextFaulty]_vars

\* C16: a call whose log write failed is still answered with the success it
\* had earned, and the account a registration created is kept
C16_LogFailureHarmless ==
    \A j \in DOMAIN cvx :
        (Answered(j) /\ cvx[j].logFailed)
        => /\ cvx[j].resp.success
           /\ IsRegistration(j) =>
                 \E k \in 1..Len(db.users) : db.users[k].email = cvx[j].email.v

\* ------------------------------------------------------------------
\* SecurityLogger.maskEmail and the e-mails the logs hold
\* ------------------------------------------------------------------

\* the e-mails the requests of the gateway and the calls of Convex carry
SubmittedEmails ==
    {TestEmail, TestEmailMixed, NewEmail, NewEmailUpper, BadEmail}

\* e is some e-mail in its masked form
IsMasked(e) == \E x \in SubmittedEmails : e = maskEmail(x) \/ e = maskEmail(toLowerCase(x))

\* C17: every e-mail held in a log entry is masked: at most the first two
\* characters of the local part, then ***, then @ and the domain
C17_LoggedEmailsMasked ==
    /\ \A k \in 1..Len(authLogs) : IsMasked(authLogs[k].email)
    /\ \A k \in 1..Len(db.authLogs) : IsMasked(db.authLogs[k].email)

\* the last call was a log query for an account
LogQueried ==
    /\ fnIn.t \in {"MockAuthStore.getAuthLogs", "users.getMyAuthLogs"}
    /\ fnIn.v.args.userId # 0

\* C18: the log query for an account returns only entries of that account,
\* most recent first, and never more than 50 of them
C18_LogQueryPage ==
    LogQueried =>
        LET mine == SelectSeq(fnIn.v.logs, LAMBDA log : log.userId = fnIn.v.args.userId)
            page == fnOut.v.value
        IN /\ \A k \in 1..Len(page) : page[k].userId = fnIn.v.args.userId
           /\ Len(page) <= 50
           /\ page = SubSeq(Reverse(mine), 1, Len(page))

\* the statuses the login endpoint is documented to answer with
LoginStatuses == {200, 400, 401, 403, 429, 500}

\* C19: every login request gets one response and its status is one of 200,
\* 400, 401, 403, 429 or 500; a failure inside the account-store block is
\* answered with 500
C19_LoginStatusDocumented ==
    \A i \in DOMAIN reqs :
        (reqs[i].kind = "login" /\ Done(i)) => reqs[i].resp.status \in LoginStatuses

\* the headers every response has to carry in environment e
RequiredHeaders(e) ==
    addSecurityHeaders(NoResponse, e).headers
        \cap {"x-frame-options", "x-content-type-options", "content-security-policy",
              "strict-transport-security"}

\* C20: every response of register, login and logout carries the
\* frame-denial, content-type-sniffing-prevention and content-security-policy
\* headers, and in production also strict-transport-security
C20_SecurityHeadersOnEveryResponse ==
    \A i \in DOMAIN reqs :
        Done(i) => RequiredHeaders(env) \subseteq reqs[i].resp.headers

\* ------------------------------------------------------------------
\* Accounts and their profiles in the Convex tables: create, the two
\* updateProfile mutations, the auth callback, deleteAccount, logout
\* ------------------------------------------------------------------

BioText == <<"h", "i">>

\* the argument objects of updateProfile: every subset of the optional fields
ProfileArgs ==
    {[f \in S |-> IF f = "displayName" THEN PaddedName ELSE BioText] : S \in SUBSET ProfileFields}

\* args.profile of the callback
CallbackProfiles == {Undefined, JObj([k \in {"name"} |-> JStr(TestName)])}

\* the session of a caller: none (0) or one of the accounts
SessionIds == {0} \cup {db.users[k].id : k \in 1..Len(db.users)}

NextProfile ==
    \/ \E e \in StoreEmails : ConvexCreateUser(TestName, e, TestPass)
    \/ \E id \in SessionIds, a \in ProfileArgs : ConvexUpdateProfile(id, a)
    \/ \E id \in SessionIds \ {0}, a \in ProfileArgs : ConvexDemoUpdateProfile(id, a)
    \/ \E id \in SessionIds, pr \in CallbackProfiles : ConvexAfterUserCreatedOrUpdated(id, pr)
    \/ \E id \in SessionIds, c \in {"DELETE", "delete"} : ConvexDeleteAccount(id, c)
    \/ ConvexLogout
    \/ Tick(1)

SpecProfile == InitStore /\ [][NextProfile]_vars

\* the positions of the profiles of an account
profilesOf(d, userId) == {k \in 1..Len(d.profiles) : d.profiles[k].userId = userId}

AtMostOneProfile ==
    \A k \in 1..Len(db.users) : Cardinality(profilesOf(db, db.users[k].id)) <= 1

\* this step is an updateProfile call that went through
UpdateProfileStep ==
    /\ fnIn'.t \in {"users.updateProfile", "demo.updateProfile"}
    /\ fnOut'.v.error = ""
    /\ db'.authLogs # db.authLogs

\* what such a step does to the profiles table
UpsertEffect ==
    LET userId == fnIn'.v.args.userId
        args == fnIn'.v.args.fields
    IN /\ \A k \in 1..Len(db.profiles) :
            /\ db'.profiles[k].id = db.profiles[k].id
            /\ db.profiles[k].userId # userId => db'.profiles[k] = db.profiles[k]
            /\ db.profiles[k].userId = userId =>
                 /\ \A f \in DOMAIN args : db'.profiles[k][f] = JStr(args[f])
                 /\ \A f \in (ProfileFields \ DOMAIN args) \cup {"userId", "createdAt"} :
                        db'.profiles[k][f] = db.profiles[k][f]
                 /\ db'.profiles[k].updatedAt = now
       /\ IF profilesOf(db, userId) = {}
          THEN /\ Len(db'.profiles) = Len(db.profiles) + 1
               /\ db'.profiles[Len(db'.profiles)].userId = userId
          ELSE Len(db'.profiles) = Len(db.profiles)

\* C21: updateProfile is an upsert: for an account without a profile it
\* creates exactly one, for an account with a profile it creates none and
\* changes only the supplied fields and updatedAt; whatever registrations and
\* profile updates ran, an account never has more than one profile
C21_UpdateProfileUpserts ==
    /\ []AtMostOneProfile
    /\ [][UpdateProfileStep => UpsertEffect]_vars

\* an existing profile was patched later than it was created: the bio was
\* supplied, the display name was not and is still the registered name
C21_Witness ==
    /\ fnIn.t = "users.updateProfile"
    /\ fnOut.v.error = ""
    /\ DOMAIN fnIn.v.args.fields = {"bio"}
    /\ \E k \in 1..Len(db.profiles) :
         /\ db.profiles[k].userId = fnIn.v.args.userId
         /\ db.profiles[k].updatedAt > db.profiles[k].createdAt
         /\ db.profiles[k].bio = JStr(BioText)
         /\ db.profiles[k].displayName = JStr(TestName)

\* every account of the table is still in the table after the step
AccountsKept(table, tableAfter) ==
    \A k \in 1..Len(table) : \E j \in 1..Len(tableAfter) : tableAfter[j] = table[k]

\* the last call was a deletion confirmed with the literal phrase by a
\* signed-in user
ConfirmedDeletion ==
    /\ fnIn.t = "users.deleteAccount"
    /\ fnIn.v.args.userId # 0
    /\ fnIn.v.args.fields.confirmation = "DELETE"

\* the last call was a deletion with another confirmation
UnconfirmedDeletion ==
    /\ fnIn.t = "users.deleteAccount"
    /\ fnIn.v.args.fields.confirmation # "DELETE"

\* C22: no step takes an account out of either store unless it is a deletion
\* by a signed-in user confirmed with the literal phrase 'DELETE'; a deletion
\* called with any other confirmation fails and leaves accounts, profiles and
\* the log as they were
C22_AccountsRemovedOnlyByConfirmedDeletion ==
    [][/\ ~(AccountsKept(db.users, db'.users) /\ AccountsKept(users, users')) => ConfirmedDeletion'
       /\ UnconfirmedDeletion' => /\ fnOut'.v.error # ""
                                  /\ db' = db
                                  /\ users' = users /\ authLogs' = authLogs]_vars

\* a signed-in user with a profile called deleteAccount with 'delete' and got
\* the error
C22_Witness ==
    /\ UnconfirmedDeletion
    /\ fnIn.v.args.userId # 0
    /\ fnOut.v.error = "Invalid confirmation"
    /\ profilesOf(db, fnIn.v.args.userId) # {}
    /\ Len(db.authLogs) >= 2

\* ------------------------------------------------------------------
\* Logout, by the route and by the Convex mutation, in between calls
\* that fill the stores and the rate windows
\* ------------------------------------------------------------------

NextLogout ==
    \/ \E i \in DOMAIN reqs : \E hdr \in {TrustedHeaders, ForeignHeaders} : Logout(i, hdr)
    \/ ConvexLogout
    \/ MockCreateUser(TestName, NewEmail, TestPass)
    \/ ConvexCreateUser(TestName, TestEmail, TestPass)
    \/ IsAllowed("ip1", windowMs, maxRequests)

SpecLogout == InitStore /\ [][NextLogout]_vars

\* slot i holds a logout request
IsLogout(i) == reqs[i].kind = "logout" /\ Done(i)

\* this step is the logout route answering slot i
RouteLogoutStep(i) == reqs[i].pc = "idle" /\ IsLogout(i)'

\* this step is a call of the logout mutation
MutationLogoutStep == fnIn.t # "authentication.logout" /\ fnIn'.t = "authentication.logout"

\* C23: logout always answers success (status 200 from the route, success
\* true from the mutation), and accounts, profiles, security log and rate
\* windows are after it what they were before it
C23_LogoutStateless ==
    [][/\ \A i \in DOMAIN reqs : RouteLogoutStep(i) => reqs'[i].resp.status = 200
       /\ MutationLogoutStep => fnOut'.v.value = <<TRUE>> /\ fnOut'.v.error = ""
       /\ (MutationLogoutStep \/ \E i \in DOMAIN reqs : RouteLogoutStep(i))
          => /\ users' = users /\ authLogs' = authLogs
             /\ db' = db /\ requests' = requests]_vars

\* both kinds of logout were answered with accounts, profiles, log entries
\* and a rate window in place
C23_Witness ==
    /\ \E i \in DOMAIN reqs : IsLogout(i) /\ reqs[i].resp.status = 200
    /\ fnIn.t = "authentication.logout"
    /\ Len(users) >= 2 /\ Len(db.profiles) >= 1 /\ Len(db.authLogs) >= 1
    /\ requests # << >>

\* ------------------------------------------------------------------
\* Password checks: PasswordValidator.validate of the security guide
\* and the check the register route makes
\* ------------------------------------------------------------------

\* the printable ASCII characters in code order, from code 32
Ascii ==
    <<" ", "!", "\"", "#", "$", "%", "&", "'", "(", ")", "*", "+", ",", "-", ".", "/",
      "0", "1", "2", "3", "4", "5", "6", "7", "8", "9", ":", ";", "<", "=", ">", "?",
      "@", "A", "B", "C", "D", "E", "F", "G", "H", "I", "J", "K", "L", "M", "N", "O",
      "P", "Q", "R", "S", "T", "U", "V", "W", "X", "Y", "Z", "[", "\\", "]", "^", "_",
      "U+0060", "a", "b", "c", "d", "e", "f", "g", "h", "i", "j", "k", "l", "m", "n", "o",
      "p", "q", "r", "s", "t", "u", "v", "w", "x", "y", "z", "{", "|", "}", "~">>

\* String.prototype.charCodeAt, one character
charCodeAt(c) == 31 + CHOOSE i \in 1..Len(Ascii) : Ascii[i] = c

\* /[a-z]/, /[A-Z]/ and /\d/
matchesLower(password) ==
    \E i \in 1..Len(password) : charCodeAt(password[i]) \in 97..122
matchesUpper(password) ==
    \E i \in 1..Len(password) : charCodeAt(password[i]) \in 65..90
matchesDigit(password) ==
    \E i \in 1..Len(password) : charCodeAt(password[i]) \in 48..57

\* the character class of the special-character test
SpecialChars == {"!", "@", "#", "$", "%", "^", "&", "*", "(", ")", "_", "+", "-", "=", "[", "]", "{", "}", ";", "'", ":", "\"", "\\", "|", ",", ".", "<", ">", "/", "?"}
matchesSpecial(password) == \E i \in 1..Len(password) : password[i] \in SpecialChars

commonPasswords ==
    {<<"p", "a", "s", "s", "w", "o", "r", "d">>,
     <<"1", "2", "3", "4", "5", "6">>,
     <<"p", "a", "s", "s", "w", "o", "r", "d", "1", "2", "3">>,
     <<"a", "d", "m", "i", "n">>,
     <<"q", "w", "e", "r", "t", "y">>,
     <<"l", "e", "t", "m", "e", "i", "n">>,
     <<"w", "e", "l", "c", "o", "m", "e">>,
     <<"m", "o", "n", "k", "e", "y">>,
     <<"1", "2", "3", "4", "5", "6", "7", "8", "9", "0">>}

\* PasswordValidator.isCommonPassword
isCommonPassword(password) == toLowerCase(password) \in commonPasswords

\* PasswordValidator.hasSequentialChars
hasSequentialChars(password) ==
    \E i \in 1..(Len(password) - 2) :
        /\ charCodeAt(password[i + 1]) = charCodeAt(password[i]) + 1
        /\ charCodeAt(password[i + 2]) = charCodeAt(password[i + 1]) + 1

\* errors.push(message) when the test fails
pushIf(errors, failed, message) == IF failed THEN Append(errors, message) ELSE errors

\* the result of a password check; errors is the list that is joined with '; '
PasswordResult(errors) == [isValid |-> errors = << >>, errors |-> errors]

\* PasswordValidator.validate(password)
validatePassword(password) ==
    LET e1 == pushIf(<< >>, Len(password) < 8, "Password must be at least 8 characters long")
        e2 == pushIf(e1, Len(password) > 128, "Password must not exceed 128 characters")
        e3 == pushIf(e2, ~matchesLower(password), "Password must contain at least one lowercase letter")
        e4 == pushIf(e3, ~matchesUpper(password), "Password must contain at least one uppercase letter")
        e5 == pushIf(e4, ~matchesDigit(password), "Password must contain at least one number")
        e6 == pushIf(e5, ~matchesSpecial(password), "Password must contain at least one special character")
        e7 == pushIf(e6, isCommonPassword(password),
                     "Password is too common, please choose a stronger password")
        e8 == pushIf(e7, hasSequentialChars(password),
                     "Password should not contain sequential characters")
    IN PasswordResult(e8)

\* what the register route answers about the password of a body whose other
\* fields are in order: an empty password is a missing field (line 43), and
\* of the policy the length alone is checked (lines 50-55)
registerPasswordCheck(password) ==
    IF ~truthy(JStr(password))
    THEN PasswordResult(<<"Missing required fields: name, email, password">>)
    ELSE PasswordResult(pushIf(<< >>, lengthBelow8(JStr(password)).v,
                               "Password must be at least 8 characters long"))

\* the length of the generated beginnings of passwords
MaxStem == 2
StemChars == {"a", "b", "A", "1", "2", "!"}
Stems == UNION {[1..n -> StemChars] : n \in 0..MaxStem}
\* endings: none, one with every class, lowercase only, a run of digits
Endings == {<< >>, <<"Z", "k", "9", "#", "Z", "k">>, <<"z", "z", "z", "z", "z", "z">>, <<"x", "3", "4", "5", "6", "7", "8">>}
LongPassword == [i \in 1..129 |-> <<"a", "A", "1", "!">>[(i % 4) + 1]]

\* the passwords checked
Passwords ==
    {stem \o ending : stem \in Stems, ending \in Endings}
    \cup {<<"P", "a", "s", "s", "w", "0", "r", "d", "!">>, <<"p", "a", "s", "s", "w", "o", "r", "d">>, <<"P", "A", "S", "S", "W", "O", "R", "D">>, <<"A", "b", "c", "1", "2", "3", "4", "5", "!">>, <<"P", "a", "s", "s", "w", "o", "r", "d", "1", "2", "3">>,
          TestPass, ShortPass, LongPassword}

InitPassword ==
    /\ env = [NODE_ENV |-> "development", NEXT_PUBLIC_APP_URL |-> Undefined]
    /\ StoreIdle
    /\ LimiterFresh
    /\ ConvexFresh
    /\ fnIn \in {[t |-> "password", v |-> x] : x \in Passwords}
    /\ fnOut = NotRun

\* PasswordValidator.validate(password) is called
ApplyPasswordValidator ==
    /\ fnIn.t = "password"
    /\ fnOut = NotRun
    /\ fnOut' = [t |-> "PasswordValidator.validate", v |-> validatePassword(fnIn.v)]
    /\ UNCHANGED <<fnIn, gatewayVars, limiterVars, convexVars>>

\* the register route checks the password of a body
ApplyRegisterPasswordCheck ==
    /\ fnIn.t = "password"
    /\ fnOut = NotRun
    /\ fnOut' = [t |-> "register.passwordCheck", v |-> registerPasswordCheck(fnIn.v)]
    /\ UNCHANGED <<fnIn, gatewayVars, limiterVars, convexVars>>

NextPassword == ApplyPasswordValidator \/ ApplyRegisterPasswordCheck

SpecPassword == InitPassword /\ [][NextPassword]_vars

Letters(chars) == {chars[i] : i \in 1..Len(chars)}

\* the rules of the password policy a password violates
ViolatedRules(password) ==
    {rule \in {"length", "lowercase", "uppercase", "digit", "symbol", "common", "sequential"} :
        CASE rule = "length" -> ~(Len(password) \in 8..128)
          [] rule = "lowercase" -> Letters(password) \cap Letters(LowerChars) = {}
          [] rule = "uppercase" -> Letters(password) \cap Letters(UpperChars) = {}
          [] rule = "digit" -> Letters(password) \cap Letters(Digits) = {}
          [] rule = "symbol" -> Letters(password) \cap SpecialChars = {}
          [] rule = "common" -> toLowerCase(password) \in commonPasswords
          [] OTHER -> \E i \in 1..Len(password), c \in 1..(Len(Ascii) - 2) :
                        /\ i + 2 <= Len(password)
                        /\ SubSeq(password, i, i + 2) = SubSeq(Ascii, c, c + 2)}

\* a password check has answered
PasswordChecked == fnOut.t \in {"PasswordValidator.validate", "register.passwordCheck"}

\* C24: a password check answers ok exactly when the password violates no
\* rule of the policy, and otherwise its reasons hold one entry for every
\* violated rule
C24_AllViolatedRulesReported ==
    PasswordChecked =>
        /\ fnOut.v.isValid <=> ViolatedRules(fnIn.v) = {}
        /\ Len(fnOut.v.errors) = Cardinality(ViolatedRules(fnIn.v))

\* the same held of PasswordValidator.validate alone
ValidatorReportsAll ==
    fnOut.t = "PasswordValidator.validate" =>
        /\ fnOut.v.isValid <=> ViolatedRules(fnIn.v) = {}
        /\ Len(fnOut.v.errors) = Cardinality(ViolatedRules(fnIn.v))

\* ------------------------------------------------------------------
\* What a successful registration has written when it is answered
\* ------------------------------------------------------------------

\* MockAuthStore keeps users and authLogs and nothing else: the profiles
\* the gateway can have seeded
mockProfiles == << >>

\* how many documents of a table satisfy Test
Count(table, Test(_)) == Cardinality({k \in 1..Len(table) : Test(table[k])})

\* C25: when a registration is answered with its session identifier the
\* store holds exactly one account with that identifier, exactly one profile
\* of that account and exactly one successful registration log entry that
\* names it
C25_RegisterSeedsProfileAndLog ==
    \A i \in DOMAIN reqs :
        Registered(i) =>
            LET id == reqs[i].resp.sessionId
            IN /\ Count(users, LAMBDA u : u.id = id) = 1
               /\ Count(mockProfiles, LAMBDA pr : pr.userId = id) = 1
               /\ Count(authLogs, LAMBDA log : /\ log.action = "user_registration"
                                              /\ log.userId = id /\ log.success) = 1

\* the same of the Convex registrations, with the three documents inserted
\* in the order account, profile, log entry
ConvexRegisterSeedsProfileAndLog ==
    \A j \in DOMAIN cvx :
        (IsRegistration(j) /\ Answered(j) /\ cvx[j].resp.success) =>
            LET id == cvx[j].user.id
            IN /\ Count(db.users, LAMBDA u : u.id = id) = 1
               /\ Count(db.profiles, LAMBDA pr : pr.userId = id /\ pr.id = id + 1) = 1
               /\ Count(db.profiles, LAMBDA pr : pr.userId = id) = 1
               /\ Count(db.authLogs, LAMBDA log : /\ log.action \in {"user_registration", "user_registered"}
                                                 /\ log.userId = id /\ log.success
                                                 /\ log.id = id + 2) = 1

\* ------------------------------------------------------------------
\* The rate limiter with its cleanup sweep
\* ------------------------------------------------------------------

\* cleanup line 259: one hour of history is kept
historyMs == 3600000

\* a sweep whose history is one millisecond short of the hour
cleanupShort(map, at) ==
    LET validRequests(key) == timestampsAfter(map[key], at - historyMs + 1)
    IN [key \in {k \in DOMAIN map : validRequests(k) # << >>} |-> validRequests(key)]
\* RateLimiter.cleanup() run at time `at`: the map after the sweep
cleanup(map, at) ==
    LET validRequests(key) == timestampsAfter(map[key], at - historyMs)
    IN [key \in {k \in DOMAIN map : validRequests(k) # << >>} |-> validRequests(key)]

\* the timestamps a map holds
Stored(map) == SumOfLengths(map, DOMAIN map)

\* one call of RateLimiter.cleanup; it has no await. The last sweep that
\* dropped a timestamp is remembered with the number of isAllowed calls each
\* identifier had made before it and of timestamps dropped
Cleanup ==
    /\ requests' = cleanup(requests, now)
    /\ fnIn' = IF Stored(requests') < Stored(requests)
               THEN [t |-> "RateLimiter.cleanup",
                     v |-> [calls |-> [k \in Identifiers |-> Len(calls[k])], dropped |-> Stored(requests) - Stored(requests')]]
               ELSE fnIn
    /\ UNCHANGED <<now, ticks, calls, securityLog, gatewayVars, fnOut, convexVars>>

\* by how much the clock advances between two steps: up to the end of the
\* default window, and up to and past the end of the hour of history
SweepSteps == {windowMs - 1, historyMs - 1, historyMs}

\* the window and the maximum callers pass: the defaults, and one request in
\* the default window, in three quarters of an hour and in one hour
SweepLimits == {<<windowMs, maxRequests>>, <<windowMs, 1>>, <<2700000, 1>>, <<historyMs, 1>>}
\* calls the first client makes during one run of the sweep
MaxSweepCalls == 2

NextSweep ==
    \/ \E limit \in SweepLimits :
          Len(calls["ip1"]) < MaxSweepCalls /\ IsAllowed("ip1", limit[1], limit[2])
    \/ OtherCall
    \/ Cleanup
    \/ \E d \in SweepSteps : Tick(d)

SpecSweep == InitLimiter /\ [][NextSweep]_vars

\* every stored timestamp lies in the window that ends now
StoredInsideWindow ==
    \A k \in DOMAIN requests : \A n \in 1..Len(requests[k]) : requests[k][n] > now - windowMs

\* this step is a sweep: no call was made and the clock stood still
SweepStep == calls' = calls /\ now' = now /\ ticks' = ticks

\* no identifier of the map has only timestamps older than one hour
NoneStale(map) ==
    \A k \in DOMAIN map : \E n \in 1..Len(map[k]) : map[k][n] >= now - historyMs

\* C26: in every reachable state the stored list of every identifier holds
\* only timestamps inside the trailing window, and after a cleanup sweep no
\* identifier is left whose timestamps are all older than one hour
C26_OnlyWindowTimestampsStored ==
    /\ []StoredInsideWindow
    /\ [][SweepStep => NoneStale(requests')]_vars

\* the second half alone
SweepLeavesNoneStale == [][SweepStep => NoneStale(requests')]_vars

\* the answers a limiter that is never swept gives to the calls of `history`
RECURSIVE Unswept(_, _, _)
Unswept(history, map, identifier) ==
    IF history = << >> THEN << >>
    ELSE LET res == isAllowed(map, << >>, Head(history).at, identifier,
                              Head(history).window, Head(history).max)
         IN <<res.allowed>> \o Unswept(Tail(history), res.requests, identifier)

\* C28: with cleanup sweeps run at any points in between, every isAllowed
\* call whose window is at most one hour (15 minutes, 45 minutes or the
\* full hour, with any maximum) got the answer a limiter that is never swept
\* gives to the same calls
C28_SweepKeepsDecisions ==
    \A identifier \in Identifiers :
        LET answers == Unswept(calls[identifier], << >>, identifier)
        IN \A k \in 1..Len(calls[identifier]) :
              calls[identifier][k].window <= historyMs
                  => calls[identifier][k].allowed = answers[k]

\* a sweep dropped timestamps and, after it, a call with a window of one
\* hour was denied on account of a call admitted more than the default
\* window and one millisecond less than the hour before it
C28_Witness ==
    /\ fnIn.t = "RateLimiter.cleanup"
    /\ fnIn.v.dropped > 0
    /\ \E identifier \in Identifiers : \E k \in 1..Len(calls[identifier]) :
          LET c == calls[identifier]
          IN /\ k > fnIn.v.calls[identifier]
             /\ ~c[k].allowed
             /\ c[k].window = historyMs
             /\ \E j \in 1..(k - 1) : c[j].allowed /\ c[j].at = c[k].at - historyMs + 1

\* ------------------------------------------------------------------
\* Denied calls of the rate limiter
\* ------------------------------------------------------------------

\* the admitted calls of `identifier` made before its call k that are still
\* inside the window at the time of call k
AdmittedBefore(identifier, k) ==
    {j \in 1..(k - 1) :
        /\ calls[identifier][j].allowed
        /\ calls[identifier][j].at > calls[identifier][k].at - windowMs}

\* this step is a denied call of `identifier`
DeniedStep(identifier) ==
    /\ Len(calls'[identifier]) = Len(calls[identifier]) + 1
    /\ ~calls'[identifier][Len(calls'[identifier])].allowed

\* C27: a denied call leaves the stored timestamps as they were, and a call
\* is admitted whenever fewer than maxRequests admitted calls are inside its
\* window, however many denied calls were made in between: a blocked
\* identifier is admitted again as soon as its oldest admitted timestamp has
\* left the window
C27_DeniedCallsRecordNothing ==
    /\ [][\A identifier \in Identifiers : DeniedStep(identifier) => requests' = requests]_vars
    /\ [](\A identifier \in Identifiers : \A k \in 1..Len(calls[identifier]) :
            Cardinality(AdmittedBefore(identifier, k)) < maxRequests
                => calls[identifier][k].allowed)

\* an identifier was denied with ten admitted calls in the window and was
\* admitted by its next call, made the moment the oldest of them had left the
\* window while the others were still inside
C27_Witness ==
    \E identifier \in Identifiers :
        LET c == calls[identifier]
        IN \E k \in 1..(Len(c) - 1) :
            /\ ~c[k].allowed
            /\ c[k + 1].allowed
            /\ c[k + 1].at = c[1].at + windowMs
            /\ AdmittedBefore(identifier, k + 1) # {}

\* ------------------------------------------------------------------
\* Which requests change the accounts of the gateway
\* ------------------------------------------------------------------

\* the request of slot i called createUser
Created(i) == \E k \in 1..Len(reqs[i].trace) : reqs[i].trace[k] = "createUser"

\* this step is the createUser call of a register request
CreateStep(i) ==
    /\ reqs[i].kind = "register"
    /\ ~Created(i)
    /\ Created(i)'

\* C29: the accounts change only in the step of a register request that is
\* then answered 201; every login request and every register request
\* answered with another status has left the accounts as they were
C29_AccountsChangeOnlyOnCreated ==
    /\ [][users' # users => \E i \in DOMAIN reqs : CreateStep(i)]_vars
    /\ [](\A i \in DOMAIN reqs :
            /\ (Done(i) /\ Created(i)) => reqs[i].resp.status = 201
            /\ Created(i) => reqs[i].kind = "register"
            /\ (Done(i) /\ reqs[i].resp.status = 201) => Created(i))

\* a registration answered 201 has added an account, a second one for the
\* same e-mail was answered 409 and added none
C29_Witness ==
    \E i, j \in DOMAIN reqs :
        /\ Registered(i) /\ Created(i)
        /\ reqs[j].kind = "register" /\ Done(j) /\ reqs[j].resp.status = 409
        /\ ReachedStore(j)
        /\ Len(users) = Len(Prepopulated.users) + 1

\* the 'user_registration' entries of the mock log
RegistrationEntries == SelectSeq(authLogs, LAMBDA log : log.action = "user_registration")

\* C30: in the in-memory store every account has exactly one
\* 'user_registration' log entry with its id and its e-mail, and there are as
\* many such entries as accounts, the pre-populated test user included.
\* Two registrations of one e-mail that both pass the check of the route and
\* draw the same id leave two accounts that each match two entries.
C30_OneRegistrationEntryPerAccount ==
    /\ \A k \in 1..Len(users) :
          Count(RegistrationEntries,
                LAMBDA log : log.userId = users[k].id /\ log.email = users[k].email) = 1
    /\ Len(RegistrationEntries) = Len(users)

====
